---- MODULE Spec2Model ----
(***************************************************************************)
(* The ring balance ledger of srml/token/ring/src/lib.rs as a state        *)
(* machine: per-account free and reserved balances, the total issuance,    *)
(* liquidity locks, vesting schedules, and the imbalance tokens that       *)
(* reconcile the issuance.  Every ledger operation is one action; the      *)
(* operations themselves are operators on a storage record so that the     *)
(* properties can speak about their results and their effects.             *)
(***************************************************************************)
EXTENDS Integers, Sequences, FiniteSets, Bags, TLC

VARIABLES
    FreeBalance,      \* map AccountId => Balance, kept on its stored keys
    ReservedBalance,  \* map AccountId => Balance
    TotalIssuance,    \* the total units issued
    Locks,            \* map AccountId => Vec<BalanceLock>
    Vesting,          \* map AccountId => Option<VestingSchedule>
    AccountNonce,     \* the accounts with a stored system::AccountNonce
    now,              \* timestamp::now()
    overflow_checks,  \* whether the build checks unchecked arithmetic
    tokens,           \* the imbalance tokens alive outside the ledger
    ABORT,            \* the thread-local abort flag of every thread
    guards,           \* per thread, previous_val of its live AbortGuards
    in_order,         \* per thread, its guards were dropped last-made first
    exited            \* the thread whose panic exited the process, if any

\* The node process around the ledger: the panic handler's state.
process == <<ABORT, guards, in_order, exited>>

vars == <<FreeBalance, ReservedBalance, TotalIssuance, Locks, Vesting,
          AccountNonce, now, overflow_checks, tokens, process>>

(***************************************************************************)
(* Bounds of the model and the configuration of the chain.                 *)
(***************************************************************************)

\* T::AccountId: an opaque, totally ordered identifier.
Accounts == {"A", "B"}

\* T::Balance is an unsigned integer; its largest value.
MaxBalance == 4

\* T::Moment: the timestamp oracle runs from 0 to MaxMoment.
MaxMoment == 2

\* The genesis configuration of the module.
ExistentialDeposit == 2

TransferFee == 1

CreationFee == 0

TransactionBaseFee == 1

TransactionByteFee == 1

Balance == 0..MaxBalance

Moment == 0..MaxMoment

Min(a, b) == IF a <= b THEN a ELSE b

Max(a, b) == IF a >= b THEN a ELSE b

\* Saturating::saturating_add / saturating_sub on T::Balance.
saturating_add(a, b) == Min(a + b, MaxBalance)

saturating_sub(a, b) == Max(a - b, 0)

\* `a + b` on T::Balance when it does not fit: the release build wraps.
wrapping_add(a, b) == (a + b) % (MaxBalance + 1)

\* `a * b` on T::Balance, likewise.
wrapping_mul(a, b) == (a * b) % (MaxBalance + 1)

(***************************************************************************)
(* Results.  The code returns &'static str errors; the names are the       *)
(* error classes of the specification.                                     *)
(***************************************************************************)

Ok == "Ok"

\* "got overflow after adding a fee to value",
\* "destination balance too high to receive value"
Overflow == "Overflow"

\* "balance too low to send value", "too few free funds in account",
\* "not enough free funds"
InsufficientFunds == "InsufficientFunds"

\* "vesting balance too high to send value"
VestingRestricted == "LiquidityRestricted: vesting balance too high to send value"

\* "account liquidity restrictions prevent withdrawal"
LockRestricted == "LiquidityRestricted: account liquidity restrictions prevent withdrawal"

LiquidityRestricted == {VestingRestricted, LockRestricted}

\* "value too low to create account"
ValueBelowExistentialDeposit == "ValueBelowExistentialDeposit"

\* "beneficiary account must pre-exist"
AccountMustPreexist == "AccountMustPreexist"

\* "payment would kill account"
AccountWouldDie == "AccountWouldDie"

\* An unchecked `+` or `*` overflowed in a build with overflow checks: the
\* call does not return, and the executor discards its storage changes.
Panic == "panic"

Errors == {Overflow, InsufficientFunds, VestingRestricted, LockRestricted,
           ValueBelowExistentialDeposit, AccountMustPreexist, AccountWouldDie}

\* WithdrawReason
WithdrawReason == {"TransactionPayment", "Transfer", "Reserve"}

\* ExistenceRequirement
KeepAlive == "KeepAlive"

AllowDeath == "AllowDeath"

(***************************************************************************)
(* Storage.  A storage record `st` holds the module's storage items, the   *)
(* oracle's moment, and the events deposited and the hooks called by the   *)
(* running call, in order.                                                 *)
(***************************************************************************)

\* StorageMap::insert / remove on a map kept as a function on its keys.
insert(map, k, v) == [x \in (DOMAIN map) \cup {k} |-> IF x = k THEN v ELSE map[x]]

remove(map, k) == [x \in (DOMAIN map) \ {k} |-> map[x]]

\* <FreeBalance<T, I>>::exists(who)
exists(st, who) == who \in DOMAIN st.FreeBalance

\* <FreeBalance<T, I>>::get(who): the default value for a missing key.
free_balance(st, who) == IF who \in DOMAIN st.FreeBalance THEN st.FreeBalance[who] ELSE 0

reserved_balance(st, who) == st.ReservedBalance[who]

total_issuance(st) == st.TotalIssuance

locks(st, who) == st.Locks[who]

deposit_event(st, e) == [st EXCEPT !.events = Append(@, e)]

call_hook(st, h) == [st EXCEPT !.hooks = Append(@, h)]

\* Drop for PositiveImbalance: squares up the total issuance.
drop_positive(st, amount) ==
    [st EXCEPT !.TotalIssuance = saturating_add(@, amount)]

\* Drop for NegativeImbalance.
drop_negative(st, amount) ==
    [st EXCEPT !.TotalIssuance = saturating_sub(@, amount)]

\* OnUnbalanced for (): the runtime's DustRemoval, TransferPayment and
\* TransactionPayment handlers drop (burn) the imbalance they are handed.
on_unbalanced(st, handler, amount) ==
    drop_negative(call_hook(st, <<handler, amount>>), amount)

\* locked_at with an unchecked product that wraps at the width of the
\* balance type.
locked_at_wrapping(v, n) ==
    LET x == wrapping_mul(n, v.per_block)
    IN  Max(v.offset, x) - x

\* VestingSchedule::locked_at
locked_at(v, n) ==
    LET x == n * v.per_block
    IN  IF x <= MaxBalance THEN Max(v.offset, x) - x ELSE 0

NoVesting == [offset |-> 0, per_block |-> 0, some |-> FALSE]

\* vesting_balance without the cap at the free balance.
vesting_balance_uncapped(st, who) ==
    IF st.Vesting[who].some THEN locked_at(st.Vesting[who], st.now) ELSE 0

vesting_balance(st, who) ==
    IF st.Vesting[who].some
    THEN Min(free_balance(st, who), locked_at(st.Vesting[who], st.now))
    ELSE 0

new_account(st, who, balance) ==
    deposit_event(call_hook(st, <<"on_new_account", who>>), <<"NewAccount", who, balance>>)

reap_account(st, who) ==
    deposit_event([st EXCEPT !.AccountNonce = @ \ {who}], <<"ReapedAccount", who>>)

\* on_free_too_low that keeps the dust in the issuance.
on_free_too_low_keeps_dust(st, who) ==
    LET s1 == [st EXCEPT !.FreeBalance = remove(@, who), !.Locks[who] = <<>>]
        s3 == call_hook(s1, <<"on_free_balance_zero", who>>)
    IN  IF reserved_balance(s3, who) = 0 THEN reap_account(s3, who) ELSE s3

\* on_free_too_low that removes the locks of every account.
on_free_too_low_all_locks(st, who) ==
    LET dust == free_balance(st, who)
        s1 == [st EXCEPT !.FreeBalance = remove(@, who),
                         !.Locks = [a \in DOMAIN @ |-> <<>>]]
        s2 == IF dust # 0 THEN on_unbalanced(s1, "DustRemoval", dust) ELSE s1
        s3 == call_hook(s2, <<"on_free_balance_zero", who>>)
    IN  IF reserved_balance(s3, who) = 0 THEN reap_account(s3, who) ELSE s3

on_free_too_low(st, who) ==
    LET dust == free_balance(st, who)
        s1 == [st EXCEPT !.FreeBalance = remove(@, who), !.Locks[who] = <<>>]
        s2 == IF dust # 0 THEN on_unbalanced(s1, "DustRemoval", dust) ELSE s1
        s3 == call_hook(s2, <<"on_free_balance_zero", who>>)
    IN  IF reserved_balance(s3, who) = 0 THEN reap_account(s3, who) ELSE s3

on_reserved_too_low(st, who) ==
    LET dust == reserved_balance(st, who)
        s1 == [st EXCEPT !.ReservedBalance[who] = 0]
        s2 == IF dust # 0 THEN on_unbalanced(s1, "DustRemoval", dust) ELSE s1
    IN  IF free_balance(s2, who) = 0 THEN reap_account(s2, who) ELSE s2

set_reserved_balance(st, who, balance) ==
    IF balance < ExistentialDeposit
    THEN on_reserved_too_low([st EXCEPT !.ReservedBalance[who] = balance], who)
    ELSE [st EXCEPT !.ReservedBalance[who] = balance]

\* set_free_balance without the existential-deposit branch.
set_free_balance_plain(st, who, balance) ==
    [st EXCEPT !.FreeBalance = insert(@, who, balance)]

set_free_balance(st, who, balance) ==
    IF balance < ExistentialDeposit
    THEN on_free_too_low([st EXCEPT !.FreeBalance = insert(@, who, balance)], who)
    ELSE [st EXCEPT !.FreeBalance = insert(@, who, balance)]

(***************************************************************************)
(* Imbalance tokens and the results of the operations.                     *)
(***************************************************************************)

\* PositiveImbalance::new / NegativeImbalance::new
PositiveImbalance(amount) == [sign |-> "Positive", amount |-> amount]

NegativeImbalance(amount) == [sign |-> "Negative", amount |-> amount]

\* An operation that returns no imbalance.
NoImbalance == [sign |-> "None", amount |-> 0]

\* Drop of a token of either sign.
drop(st, imbalance) ==
    IF imbalance.sign = "Positive" THEN drop_positive(st, imbalance.amount)
    ELSE IF imbalance.sign = "Negative" THEN drop_negative(st, imbalance.amount)
    ELSE st

\* A variant of mem::forget that runs the destructor all the same.
forget_runs_drop(st, imbalance) == drop(st, imbalance)

\* mem::forget: the token ends without its Drop running.
forget(st, imbalance) == st

\* What an operation on tokens hands back: the storage it leaves and the
\* tokens that are live in its caller's hands afterwards.
Tokens(st, out) == [st |-> st, out |-> out]

\* Imbalance::drop_zero: Ok(()) lets a zero token go out of scope, Err(self)
\* hands the token back.
drop_zero(st, self) ==
    IF self.amount = 0 THEN Tokens(drop(st, self), <<>>) ELSE Tokens(st, <<self>>)

\* split that takes `amount` for the first part whatever the magnitude.
split_unclamped(st, self, amount) ==
    Tokens(forget(st, self),
           <<[sign |-> self.sign, amount |-> amount],
             [sign |-> self.sign, amount |-> Max(self.amount - amount, 0)]>>)

\* Imbalance::split
split(st, self, amount) ==
    LET first == Min(self.amount, amount)
        second == self.amount - first
    IN  Tokens(forget(st, self),
               <<[sign |-> self.sign, amount |-> first],
                 [sign |-> self.sign, amount |-> second]>>)

\* merge that wraps at the width of the balance type.
merge_wrapping(st, self, other) ==
    Tokens(forget(st, other),
           <<[self EXCEPT !.amount = wrapping_add(self.amount, other.amount)]>>)

\* Imbalance::merge
merge(st, self, other) ==
    Tokens(forget(st, other),
           <<[self EXCEPT !.amount = saturating_add(self.amount, other.amount)]>>)

\* Imbalance::subsume
subsume(st, self, other) ==
    Tokens(forget(st, other),
           <<[self EXCEPT !.amount = saturating_add(self.amount, other.amount)]>>)

\* offset whose result always carries the receiver's sign.
offset_keeps_sign(st, self, other) ==
    Tokens(forget(forget(st, self), other),
           <<[sign |-> self.sign,
              amount |-> Max(self.amount, other.amount) - Min(self.amount, other.amount)]>>)

\* Imbalance::offset
offset(st, self, other) ==
    LET a == self.amount
        b == other.amount
        s1 == forget(forget(st, self), other)
    IN  IF a >= b
        THEN Tokens(s1, <<[sign |-> self.sign, amount |-> a - b]>>)
        ELSE Tokens(s1, <<[sign |-> other.sign, amount |-> b - a]>>)

\* What an operation hands back: the storage it leaves, its result, the
\* imbalance it returns to the caller and the balance it returns.
Return(st, res, imbalance, value) ==
    [st |-> st, res |-> res, imbalance |-> imbalance, value |-> value]

Done(st) == Return(st, Ok, NoImbalance, 0)

Err(st, e) == Return(st, e, NoImbalance, 0)

Panicked(st) == Return(st, Panic, NoImbalance, 0)

\* `a + b` overflows and the build checks it.
overflows(st, a, b) == st.overflow_checks /\ a + b > MaxBalance

(***************************************************************************)
(* Currency                                                                *)
(***************************************************************************)

\* Currency::total_balance: free + reserved, unchecked.
total_balance(st, who) == wrapping_add(free_balance(st, who), reserved_balance(st, who))

total_balance_overflows(st, who) ==
    overflows(st, free_balance(st, who), reserved_balance(st, who))

\* A lock that never expires.
lock_allows_forever(st, l, reason, new_balance) ==
    \/ new_balance >= l.amount
    \/ reason \notin l.reasons

\* A lock that still holds at the moment it runs out.
lock_allows_late(st, l, reason, new_balance) ==
    \/ st.now > l.until
    \/ new_balance >= l.amount
    \/ reason \notin l.reasons

\* One lock lets the withdrawal through.
lock_allows(st, l, reason, new_balance) ==
    \/ st.now >= l.until
    \/ new_balance >= l.amount
    \/ reason \notin l.reasons

\* Currency::ensure_can_withdraw
ensure_can_withdraw(st, who, amount, reason, new_balance) ==
    IF reason \in {"Reserve", "Transfer"} /\ vesting_balance(st, who) > new_balance
    THEN Err(st, VestingRestricted)
    ELSE IF locks(st, who) = <<>> THEN Done(st)
    ELSE IF \A i \in 1..Len(locks(st, who)) :
                lock_allows(st, locks(st, who)[i], reason, new_balance)
         THEN Done(st)
         ELSE Err(st, LockRestricted)

\* A fee that does not look at the destination.
fee_flat(would_create) == TransferFee

\* The fee of a transfer: `if would_create { creation_fee } else { transfer_fee }`.
fee_of(would_create) == IF would_create THEN CreationFee ELSE TransferFee

\* Currency::transfer with the creation threshold one unit too high.
transfer_strict(st, transactor, dest, value) ==
    LET from_balance == free_balance(st, transactor)
        to_balance == free_balance(st, dest)
        would_create == to_balance = 0
        fee == fee_of(would_create)
        liability == value + fee
        new_from_balance == from_balance - liability
        guard == ensure_can_withdraw(st, transactor, value, "Transfer", new_from_balance)
        new_to_balance == to_balance + value
    IN  IF liability > MaxBalance THEN Err(st, Overflow)
        ELSE IF from_balance < liability THEN Err(st, InsufficientFunds)
        ELSE IF would_create /\ value <= ExistentialDeposit
             THEN Err(st, ValueBelowExistentialDeposit)
        ELSE IF guard.res # Ok THEN Err(guard.st, guard.res)
        ELSE IF new_to_balance > MaxBalance THEN Err(guard.st, Overflow)
        ELSE IF transactor # dest
             THEN LET s1 == set_free_balance(guard.st, transactor, new_from_balance)
                      s2 == IF ~exists(s1, dest)
                            THEN new_account(s1, dest, new_to_balance) ELSE s1
                      s3 == set_free_balance(s2, dest, new_to_balance)
                      s4 == on_unbalanced(s3, "TransferPayment", fee)
                  IN  Done(deposit_event(s4, <<"Transfer", transactor, dest, value, fee>>))
             ELSE Done(guard.st)

\* Currency::transfer with unchecked sums: the liability and the
\* destination's new balance wrap at the width of the balance type.
transfer_wrapping(st, transactor, dest, value) ==
    LET from_balance == free_balance(st, transactor)
        to_balance == free_balance(st, dest)
        would_create == to_balance = 0
        fee == fee_of(would_create)
        liability == wrapping_add(value, fee)
        new_from_balance == from_balance - liability
        guard == ensure_can_withdraw(st, transactor, value, "Transfer", new_from_balance)
        new_to_balance == wrapping_add(to_balance, value)
    IN  IF from_balance < liability THEN Err(st, InsufficientFunds)
        ELSE IF would_create /\ value < ExistentialDeposit
             THEN Err(st, ValueBelowExistentialDeposit)
        ELSE IF guard.res # Ok THEN Err(guard.st, guard.res)
        ELSE IF transactor # dest
             THEN LET s1 == set_free_balance(guard.st, transactor, new_from_balance)
                      s2 == IF ~exists(s1, dest)
                            THEN new_account(s1, dest, new_to_balance) ELSE s1
                      s3 == set_free_balance(s2, dest, new_to_balance)
                      s4 == on_unbalanced(s3, "TransferPayment", fee)
                  IN  Done(deposit_event(s4, <<"Transfer", transactor, dest, value, fee>>))
             ELSE Done(guard.st)

\* Currency::transfer without the test for a transfer to oneself.
transfer_to_self(st, transactor, dest, value) ==
    LET from_balance == free_balance(st, transactor)
        to_balance == free_balance(st, dest)
        would_create == to_balance = 0
        fee == fee_of(would_create)
        liability == value + fee
        new_from_balance == from_balance - liability
        guard == ensure_can_withdraw(st, transactor, value, "Transfer", new_from_balance)
        new_to_balance == to_balance + value
    IN  IF liability > MaxBalance THEN Err(st, Overflow)
        ELSE IF from_balance < liability THEN Err(st, InsufficientFunds)
        ELSE IF would_create /\ value < ExistentialDeposit
             THEN Err(st, ValueBelowExistentialDeposit)
        ELSE IF guard.res # Ok THEN Err(guard.st, guard.res)
        ELSE IF new_to_balance > MaxBalance THEN Err(guard.st, Overflow)
        ELSE LET s1 == set_free_balance(guard.st, transactor, new_from_balance)
                 s2 == IF ~exists(s1, dest)
                       THEN new_account(s1, dest, new_to_balance) ELSE s1
                 s3 == set_free_balance(s2, dest, new_to_balance)
                 s4 == on_unbalanced(s3, "TransferPayment", fee)
             IN  Done(deposit_event(s4, <<"Transfer", transactor, dest, value, fee>>))

\* Currency::transfer
transfer(st, transactor, dest, value) ==
    LET from_balance == free_balance(st, transactor)
        to_balance == free_balance(st, dest)
        would_create == to_balance = 0
        fee == fee_of(would_create)
        liability == value + fee
        new_from_balance == from_balance - liability
        guard == ensure_can_withdraw(st, transactor, value, "Transfer", new_from_balance)
        new_to_balance == to_balance + value
    IN  IF liability > MaxBalance THEN Err(st, Overflow)
        ELSE IF from_balance < liability THEN Err(st, InsufficientFunds)
        ELSE IF would_create /\ value < ExistentialDeposit
             THEN Err(st, ValueBelowExistentialDeposit)
        ELSE IF guard.res # Ok THEN Err(guard.st, guard.res)
        ELSE IF new_to_balance > MaxBalance THEN Err(guard.st, Overflow)
        ELSE IF transactor # dest
             THEN LET s1 == set_free_balance(guard.st, transactor, new_from_balance)
                      s2 == IF ~exists(s1, dest)
                            THEN new_account(s1, dest, new_to_balance) ELSE s1
                      s3 == set_free_balance(s2, dest, new_to_balance)
                      s4 == on_unbalanced(s3, "TransferPayment", fee)
                  IN  Done(deposit_event(s4, <<"Transfer", transactor, dest, value, fee>>))
             ELSE Done(guard.st)

\* Module::set_balance (root call)
set_balance(st, who, new_free, new_reserved) ==
    LET current_free == free_balance(st, who)
        s1 == IF new_free > current_free
              THEN drop_positive(st, new_free - current_free)
              ELSE IF new_free < current_free
                   THEN drop_negative(st, current_free - new_free)
                   ELSE st
        s2 == set_free_balance(s1, who, new_free)
        current_reserved == reserved_balance(s2, who)
        s3 == IF new_reserved > current_reserved
              THEN drop_positive(s2, new_reserved - current_reserved)
              ELSE IF new_reserved < current_reserved
                   THEN drop_negative(s2, current_reserved - new_reserved)
                   ELSE s2
    IN  Done(set_reserved_balance(s3, who, new_reserved))

\* Currency::withdraw with the write moved ahead of the guard.
withdraw_then_check(st, who, value, reason, liveness) ==
    LET new_balance == free_balance(st, who) - value
        s1 == set_free_balance(st, who, Max(new_balance, 0))
        guard == ensure_can_withdraw(s1, who, value, reason, new_balance)
    IN  IF free_balance(st, who) < value THEN Err(st, InsufficientFunds)
        ELSE IF liveness = KeepAlive /\ new_balance < ExistentialDeposit
             THEN Err(st, AccountWouldDie)
        ELSE IF guard.res # Ok THEN Err(guard.st, guard.res)
        ELSE Return(s1, Ok, NegativeImbalance(value), 0)

\* withdraw that takes every withdrawal as AllowDeath.
withdraw_any_liveness(st, who, value, reason, liveness) ==
    LET new_balance == free_balance(st, who) - value
        guard == ensure_can_withdraw(st, who, value, reason, new_balance)
    IN  IF free_balance(st, who) < value THEN Err(st, InsufficientFunds)
        ELSE IF guard.res # Ok THEN Err(guard.st, guard.res)
        ELSE Return(set_free_balance(guard.st, who, new_balance), Ok,
                    NegativeImbalance(value), 0)

\* Currency::withdraw
withdraw(st, who, value, reason, liveness) ==
    LET new_balance == free_balance(st, who) - value
        guard == ensure_can_withdraw(st, who, value, reason, new_balance)
    IN  IF free_balance(st, who) < value THEN Err(st, InsufficientFunds)
        ELSE IF liveness = KeepAlive /\ new_balance < ExistentialDeposit
             THEN Err(st, AccountWouldDie)
        ELSE IF guard.res # Ok THEN Err(guard.st, guard.res)
        ELSE Return(set_free_balance(guard.st, who, new_balance), Ok,
                    NegativeImbalance(value), 0)

\* slash that leaves the reserved balance alone.
slash_free_only(st, who, value) ==
    LET fb == free_balance(st, who)
        free_slash == Min(fb, value)
    IN  Return(set_free_balance(st, who, fb - free_slash), Ok,
               NegativeImbalance(free_slash), value - free_slash)

\* slash that draws on the reserved balance before the free balance.
slash_reserved_first(st, who, value) ==
    LET rb == reserved_balance(st, who)
        reserved_slash == Min(rb, value)
        s1 == set_reserved_balance(st, who, rb - reserved_slash)
        remaining_slash == value - reserved_slash
        fb == free_balance(s1, who)
        free_slash == Min(fb, remaining_slash)
    IN  Return(set_free_balance(s1, who, fb - free_slash), Ok,
               NegativeImbalance(free_slash + reserved_slash),
               remaining_slash - free_slash)

\* Currency::slash
slash(st, who, value) ==
    LET fb == free_balance(st, who)
        free_slash == Min(fb, value)
        s1 == set_free_balance(st, who, fb - free_slash)
        remaining_slash == value - free_slash
        rb == reserved_balance(s1, who)
        reserved_slash == Min(rb, remaining_slash)
    IN  IF remaining_slash # 0
        THEN Return(set_reserved_balance(s1, who, rb - reserved_slash), Ok,
                    NegativeImbalance(free_slash + reserved_slash),
                    remaining_slash - reserved_slash)
        ELSE Return(s1, Ok, NegativeImbalance(value), 0)

\* Currency::deposit_into_existing
deposit_into_existing(st, who, value) ==
    IF total_balance_overflows(st, who) THEN Panicked(st)
    ELSE IF total_balance(st, who) = 0 THEN Err(st, AccountMustPreexist)
    ELSE IF overflows(st, free_balance(st, who), value) THEN Panicked(st)
    ELSE Return(set_free_balance(st, who, wrapping_add(free_balance(st, who), value)),
                Ok, PositiveImbalance(value), 0)

\* UpdateBalanceOutcome
Updated == "Updated"

AccountKilled == "AccountKilled"

\* make_free_balance_be without the bypass for a dust write on a zero
\* balance.
make_free_balance_be_no_bypass(st, who, balance) ==
    LET original == free_balance(st, who)
        imbalance == IF original <= balance
                     THEN PositiveImbalance(balance - original)
                     ELSE NegativeImbalance(original - balance)
    IN  IF balance < ExistentialDeposit
        THEN Return(set_free_balance(st, who, balance), Ok, imbalance, AccountKilled)
        ELSE LET s1 == IF ~exists(st, who) THEN new_account(st, who, balance) ELSE st
             IN  Return(set_free_balance(s1, who, balance), Ok, imbalance, Updated)

\* make_free_balance_be that returns every difference as a positive
\* imbalance.
make_free_balance_be_unsigned(st, who, balance) ==
    LET original == free_balance(st, who)
        imbalance == IF original <= balance
                     THEN PositiveImbalance(balance - original)
                     ELSE PositiveImbalance(original - balance)
    IN  IF balance < ExistentialDeposit /\ original = 0
        THEN Return(st, Ok, PositiveImbalance(0), AccountKilled)
        ELSE IF balance < ExistentialDeposit
             THEN Return(set_free_balance(st, who, balance), Ok, imbalance, AccountKilled)
        ELSE LET s1 == IF ~exists(st, who) THEN new_account(st, who, balance) ELSE st
             IN  Return(set_free_balance(s1, who, balance), Ok, imbalance, Updated)

\* Currency::make_free_balance_be: the signed imbalance and, as its value,
\* the UpdateBalanceOutcome.
make_free_balance_be(st, who, balance) ==
    LET original == free_balance(st, who)
        imbalance == IF original <= balance
                     THEN PositiveImbalance(balance - original)
                     ELSE NegativeImbalance(original - balance)
    IN  IF balance < ExistentialDeposit /\ original = 0
        THEN Return(st, Ok, PositiveImbalance(0), AccountKilled)
        ELSE IF balance < ExistentialDeposit
             THEN Return(set_free_balance(st, who, balance), Ok, imbalance, AccountKilled)
        ELSE LET s1 == IF ~exists(st, who) THEN new_account(st, who, balance) ELSE st
             IN  Return(set_free_balance(s1, who, balance), Ok, imbalance, Updated)

\* Currency::deposit_creating: a negative imbalance is dropped on the spot
\* and a zero positive one returned in its place.
deposit_creating(st, who, value) ==
    LET m == make_free_balance_be(st, who, wrapping_add(free_balance(st, who), value))
    IN  IF overflows(st, free_balance(st, who), value) THEN Panicked(st)
        ELSE IF m.imbalance.sign = "Positive" THEN Return(m.st, Ok, m.imbalance, 0)
        ELSE Return(drop(m.st, m.imbalance), Ok, PositiveImbalance(0), 0)

(***************************************************************************)
(* ReservableCurrency                                                      *)
(***************************************************************************)

\* reserve that writes the free balance before the reserved balance.
reserve_free_first(st, who, value) ==
    LET b == free_balance(st, who)
        new_balance == b - value
        guard == ensure_can_withdraw(st, who, value, "Reserve", new_balance)
    IN  IF b < value THEN Err(st, InsufficientFunds)
        ELSE IF guard.res # Ok THEN Err(guard.st, guard.res)
        ELSE IF overflows(st, reserved_balance(st, who), value) THEN Panicked(st)
        ELSE LET s1 == set_free_balance(guard.st, who, new_balance)
             IN  Done(set_reserved_balance(s1, who,
                          wrapping_add(reserved_balance(st, who), value)))

\* ReservableCurrency::reserve
reserve(st, who, value) ==
    LET b == free_balance(st, who)
        new_balance == b - value
        guard == ensure_can_withdraw(st, who, value, "Reserve", new_balance)
    IN  IF b < value THEN Err(st, InsufficientFunds)
        ELSE IF guard.res # Ok THEN Err(guard.st, guard.res)
        ELSE IF overflows(st, reserved_balance(st, who), value) THEN Panicked(st)
        ELSE LET s1 == set_reserved_balance(guard.st, who,
                            wrapping_add(reserved_balance(st, who), value))
             IN  Done(set_free_balance(s1, who, new_balance))

\* unreserve behind the withdrawal guard.
unreserve_guarded(st, who, value) ==
    LET b == reserved_balance(st, who)
        actual == Min(b, value)
        guard == ensure_can_withdraw(st, who, value, "Reserve", free_balance(st, who))
    IN  IF guard.res # Ok THEN Err(st, guard.res)
        ELSE IF overflows(st, free_balance(st, who), actual) THEN Panicked(st)
        ELSE LET s1 == set_free_balance(st, who, wrapping_add(free_balance(st, who), actual))
             IN  Return(set_reserved_balance(s1, who, b - actual), Ok, NoImbalance,
                        value - actual)

\* ReservableCurrency::unreserve
unreserve(st, who, value) ==
    LET b == reserved_balance(st, who)
        actual == Min(b, value)
    IN  IF overflows(st, free_balance(st, who), actual) THEN Panicked(st)
        ELSE LET s1 == set_free_balance(st, who, wrapping_add(free_balance(st, who), actual))
             IN  Return(set_reserved_balance(s1, who, b - actual), Ok, NoImbalance,
                        value - actual)

\* ReservableCurrency::slash_reserved
slash_reserved(st, who, value) ==
    LET b == reserved_balance(st, who)
        slash_ == Min(b, value)
    IN  Return(set_reserved_balance(st, who, b - slash_), Ok,
               NegativeImbalance(slash_), value - slash_)

\* ReservableCurrency::repatriate_reserved
repatriate_reserved(st, slashed, beneficiary, value) ==
    LET b == reserved_balance(st, slashed)
        slash_ == Min(b, value)
    IN  IF total_balance_overflows(st, beneficiary) THEN Panicked(st)
        ELSE IF total_balance(st, beneficiary) = 0 THEN Err(st, AccountMustPreexist)
        ELSE IF overflows(st, free_balance(st, beneficiary), slash_) THEN Panicked(st)
        ELSE LET s1 == set_free_balance(st, beneficiary,
                            wrapping_add(free_balance(st, beneficiary), slash_))
             IN  Return(set_reserved_balance(s1, slashed, b - slash_), Ok, NoImbalance,
                        value - slash_)

(***************************************************************************)
(* MakePayment                                                             *)
(***************************************************************************)

\* make_payment that withdraws for the reason Transfer.
make_payment_as_transfer(st, transactor, encoded_len) ==
    LET transaction_fee == wrapping_add(TransactionBaseFee,
                                        wrapping_mul(TransactionByteFee, encoded_len))
        w == withdraw(st, transactor, transaction_fee, "Transfer", KeepAlive)
    IN  IF w.res # Ok THEN Err(w.st, w.res)
        ELSE Done(on_unbalanced(w.st, "TransactionPayment", w.imbalance.amount))

\* MakePayment::make_payment
make_payment(st, transactor, encoded_len) ==
    LET byte_part == wrapping_mul(TransactionByteFee, encoded_len)
        transaction_fee == wrapping_add(TransactionBaseFee, byte_part)
        w == withdraw(st, transactor, transaction_fee, "TransactionPayment", KeepAlive)
    IN  IF st.overflow_checks /\ TransactionByteFee * encoded_len > MaxBalance
        THEN Panicked(st)
        ELSE IF overflows(st, TransactionBaseFee, byte_part) THEN Panicked(st)
        ELSE IF w.res # Ok THEN Err(w.st, w.res)
        ELSE Done(on_unbalanced(w.st, "TransactionPayment", w.imbalance.amount))

(***************************************************************************)
(* LockableCurrency                                                        *)
(***************************************************************************)

BalanceLock(id, amount, until, reasons) ==
    [id |-> id, amount |-> amount, until |-> until, reasons |-> reasons]

\* set_lock that leaves a stored lock with the id as it is.
set_lock_keeps_old(st, id, who, amount, until, reasons) ==
    LET new_lock == BalanceLock(id, amount, until, reasons)
        found == \E i \in 1..Len(locks(st, who)) : locks(st, who)[i].id = id
        kept == SelectSeq(locks(st, who), LAMBDA l : l.id = id \/ l.until > st.now)
    IN  Done([st EXCEPT !.Locks[who] = IF found THEN kept ELSE Append(kept, new_lock)])

\* set_lock that pushes the new lock whether or not the id is stored.
set_lock_pushes(st, id, who, amount, until, reasons) ==
    LET new_lock == BalanceLock(id, amount, until, reasons)
        kept == SelectSeq(locks(st, who), LAMBDA l : l.id = id \/ l.until > st.now)
    IN  Done([st EXCEPT !.Locks[who] = Append(kept, new_lock)])

\* LockableCurrency::set_lock
set_lock(st, id, who, amount, until, reasons) ==
    LET new_lock == BalanceLock(id, amount, until, reasons)
        \* new_lock.take() yields the lock once: for the first stored lock
        \* with this id; a later one with the same id yields None.
        RECURSIVE walk(_, _)
        walk(ls, taken) ==
            IF ls = <<>> THEN <<>>
            ELSE LET l == Head(ls)
                 IN  IF l.id = id
                     THEN (IF taken THEN <<>> ELSE <<new_lock>>) \o walk(Tail(ls), TRUE)
                     ELSE IF l.until > st.now
                          THEN <<l>> \o walk(Tail(ls), taken)
                          ELSE walk(Tail(ls), taken)
        found == \E i \in 1..Len(locks(st, who)) : locks(st, who)[i].id = id
        kept == walk(locks(st, who), FALSE)
    IN  Done([st EXCEPT !.Locks[who] = IF found THEN kept ELSE Append(kept, new_lock)])

\* extend_lock that takes the new lock's amount as it is.
extend_lock_replaces(st, id, who, amount, until, reasons) ==
    LET new_lock == BalanceLock(id, amount, until, reasons)
        RECURSIVE walk(_, _)
        walk(ls, taken) ==
            IF ls = <<>> THEN <<>>
            ELSE LET l == Head(ls)
                 IN  IF l.id = id
                     THEN (IF taken THEN <<>>
                           ELSE <<BalanceLock(l.id, amount, Max(l.until, until),
                                              l.reasons \cup reasons)>>)
                          \o walk(Tail(ls), TRUE)
                     ELSE IF l.until > st.now
                          THEN <<l>> \o walk(Tail(ls), taken)
                          ELSE walk(Tail(ls), taken)
        found == \E i \in 1..Len(locks(st, who)) : locks(st, who)[i].id = id
        kept == walk(locks(st, who), FALSE)
    IN  Done([st EXCEPT !.Locks[who] = IF found THEN kept ELSE Append(kept, new_lock)])

\* LockableCurrency::extend_lock
extend_lock(st, id, who, amount, until, reasons) ==
    LET new_lock == BalanceLock(id, amount, until, reasons)
        \* new_lock.take().map(..) merges the new lock into the first stored
        \* lock with this id; a later one with the same id yields None.
        RECURSIVE walk(_, _)
        walk(ls, taken) ==
            IF ls = <<>> THEN <<>>
            ELSE LET l == Head(ls)
                 IN  IF l.id = id
                     THEN (IF taken THEN <<>>
                           ELSE <<BalanceLock(l.id, Max(l.amount, amount),
                                              Max(l.until, until),
                                              l.reasons \cup reasons)>>)
                          \o walk(Tail(ls), TRUE)
                     ELSE IF l.until > st.now
                          THEN <<l>> \o walk(Tail(ls), taken)
                          ELSE walk(Tail(ls), taken)
        found == \E i \in 1..Len(locks(st, who)) : locks(st, who)[i].id = id
        kept == walk(locks(st, who), FALSE)
    IN  Done([st EXCEPT !.Locks[who] = IF found THEN kept ELSE Append(kept, new_lock)])

\* remove_lock that filters on the id alone.
remove_lock_by_id(st, id, who) ==
    Done([st EXCEPT !.Locks[who] = SelectSeq(locks(st, who), LAMBDA l : l.id # id)])

\* remove_lock that takes every lock of the account with it.
remove_lock_clears(st, id, who) ==
    Done([st EXCEPT !.Locks[who] = <<>>])

\* LockableCurrency::remove_lock
remove_lock(st, id, who) ==
    Done([st EXCEPT !.Locks[who] =
              SelectSeq(locks(st, who), LAMBDA l : l.until > st.now /\ l.id # id)])

(***************************************************************************)
(* The state machine.                                                      *)
(***************************************************************************)

\* The storage as the running call finds it.
S ==
    [FreeBalance |-> FreeBalance, ReservedBalance |-> ReservedBalance,
     TotalIssuance |-> TotalIssuance, Locks |-> Locks, Vesting |-> Vesting,
     AccountNonce |-> AccountNonce, now |-> now,
     overflow_checks |-> overflow_checks, events |-> <<>>, hooks |-> <<>>]

\* The sum of a set of accounts' genesis balances.
RECURSIVE SumOver(_, _)
SumOver(f, D) ==
    IF D = {} THEN 0
    ELSE LET a == CHOOSE x \in D : TRUE IN f[a] + SumOver(f, D \ {a})

\* config.balances: the endowed accounts, each with at least the
\* existential deposit, whose sum fits the balance type.
GenesisBalances ==
    {f \in UNION {[D -> ExistentialDeposit..MaxBalance] : D \in SUBSET Accounts} :
        SumOver(f, DOMAIN f) <= MaxBalance}

\* Vesting schedules present in storage. The module declares the Vesting
\* map and reads it; it writes it nowhere, so its content is an input.
VestingSchedules ==
    {[a \in Accounts |-> NoVesting],
     [a \in Accounts |-> IF a = "A" THEN [offset |-> 4, per_block |-> 2, some |-> TRUE]
                         ELSE NoVesting]}

\* The threads of the node process.
Threads == {"main", "worker"}

\* No thread has exited the process.
Running == "running"

\* thread_local! ABORT: every thread starts with the flag set, and no
\* guard is alive.
ProcessStart ==
    /\ ABORT = [t \in Threads |-> TRUE]
    /\ guards = [t \in Threads |-> <<>>]
    /\ in_order = [t \in Threads |-> TRUE]
    /\ exited = Running

\* The state after genesis: no reserved balance, no lock, and a nonce for
\* every endowed account. `builds` says whether the build checks unchecked
\* arithmetic for overflow.
Genesis(vesting, builds) ==
    /\ FreeBalance \in GenesisBalances
    /\ ReservedBalance = [a \in Accounts |-> 0]
    /\ TotalIssuance = SumOver(FreeBalance, DOMAIN FreeBalance)
    /\ Locks = [a \in Accounts |-> <<>>]
    /\ Vesting \in vesting
    /\ AccountNonce = DOMAIN FreeBalance
    /\ now = 0
    /\ overflow_checks \in builds
    /\ tokens = EmptyBag
    /\ ProcessStart

\* The call returns r: its storage changes are committed, and the caller
\* drops the imbalance it was handed.
Commit(r) ==
    LET s == drop(r.st, r.imbalance)
    IN  /\ FreeBalance' = s.FreeBalance
        /\ ReservedBalance' = s.ReservedBalance
        /\ TotalIssuance' = s.TotalIssuance
        /\ Locks' = s.Locks
        /\ AccountNonce' = s.AccountNonce
        /\ UNCHANGED <<Vesting, now, overflow_checks, tokens, process>>

Transfer(V) ==
    \E transactor \in Accounts, dest \in Accounts, value \in V :
        Commit(transfer(S, transactor, dest, value))

SetBalance(V) ==
    \E who \in Accounts, new_free \in V, new_reserved \in V :
        Commit(set_balance(S, who, new_free, new_reserved))

Withdraw(V, R) ==
    \E who \in Accounts, value \in V, reason \in R, liveness \in {KeepAlive, AllowDeath} :
        Commit(withdraw(S, who, value, reason, liveness))

Slash(V) ==
    \E who \in Accounts, value \in V :
        Commit(slash(S, who, value))

DepositIntoExisting(V) ==
    \E who \in Accounts, value \in V :
        Commit(deposit_into_existing(S, who, value))

Reserve(V) ==
    \E who \in Accounts, value \in V :
        Commit(reserve(S, who, value))

Unreserve(V) ==
    \E who \in Accounts, value \in V :
        Commit(unreserve(S, who, value))

SlashReserved(V) ==
    \E who \in Accounts, value \in V :
        Commit(slash_reserved(S, who, value))

DepositCreating(V) ==
    \E who \in Accounts, value \in V :
        Commit(deposit_creating(S, who, value))

RepatriateReserved(V) ==
    \E slashed \in Accounts, beneficiary \in Accounts, value \in V :
        Commit(repatriate_reserved(S, slashed, beneficiary, value))

MakePayment(N) ==
    \E transactor \in Accounts, encoded_len \in N :
        Commit(make_payment(S, transactor, encoded_len))

\* The guard called on its own: it returns its Result and writes nothing.
EnsureCanWithdraw(V) ==
    \E who \in Accounts, reason \in WithdrawReason, new_balance \in V :
        Commit(ensure_can_withdraw(S, who, 0, reason, new_balance))

\* Lock parameters the callers use.
LockIds == {1}

LockAmounts == {3}

LockReasons == {{"Transfer"}, {"Reserve", "TransactionPayment"}}

SetLock ==
    \E id \in LockIds, who \in Accounts, amount \in LockAmounts,
       until \in 1..MaxMoment, reasons \in LockReasons :
        Commit(set_lock(S, id, who, amount, until, reasons))

\* The timestamp oracle moves on.
Tick ==
    /\ now < MaxMoment
    /\ now' = now + 1
    /\ UNCHANGED <<FreeBalance, ReservedBalance, TotalIssuance, Locks, Vesting,
                   AccountNonce, overflow_checks, tokens, process>>

(***************************************************************************)
(* Spec: the balance operations, on a ledger without locks or vesting.     *)
(***************************************************************************)

Init == Genesis({[a \in Accounts |-> NoVesting]}, BOOLEAN)

Next ==
    \/ Transfer(Balance)
    \/ SetBalance(Balance)
    \/ Withdraw(Balance, {"Transfer"})
    \/ Slash(Balance)
    \/ DepositIntoExisting(Balance)
    \/ Reserve(Balance)
    \/ Unreserve(Balance)
    \/ RepatriateReserved(Balance)
    \/ MakePayment(Balance)
    \/ SlashReserved(Balance)
    \/ DepositCreating(Balance)

Spec == Init /\ [][Next]_vars

(***************************************************************************)
(* SpecGuard: the withdrawal guard, with locks, vesting and the oracle,    *)
(* under the operations that decrease a free balance.                      *)
(***************************************************************************)

InitGuard == Genesis(VestingSchedules, {FALSE})

NextGuard ==
    \/ SetLock
    \/ Tick
    \/ EnsureCanWithdraw(Balance)
    \/ Transfer(Balance)
    \/ Withdraw(Balance, WithdrawReason)
    \/ Reserve(Balance)
    \/ Unreserve(Balance)
    \/ RepatriateReserved(Balance)
    \/ MakePayment(Balance)

SpecGuard == InitGuard /\ [][NextGuard]_vars

(***************************************************************************)
(* SpecImbalance: the imbalance tokens in their holders' hands, from their *)
(* creation to their end.                                                  *)
(***************************************************************************)

\* The most tokens held at once.
MaxTokens == 3

Signs == {"Positive", "Negative"}

RECURSIVE BagOf(_)
BagOf(seq) ==
    IF seq = <<>> THEN EmptyBag ELSE SetToBag({Head(seq)}) (+) BagOf(Tail(seq))

\* Two distinct live tokens.
Held(self, other) ==
    /\ BagIn(self, tokens)
    /\ BagIn(other, tokens (-) SetToBag({self}))

\* The tokens in `consumed` were moved into a call that returned r.
Hand(consumed, r) ==
    /\ tokens' = (tokens (-) consumed) (+) BagOf(r.out)
    /\ TotalIssuance' = r.st.TotalIssuance
    /\ UNCHANGED <<FreeBalance, ReservedBalance, Locks, Vesting, AccountNonce, now,
                   overflow_checks, process>>

NewImbalance ==
    \E sign \in Signs, amount \in Balance :
        /\ BagCardinality(tokens) < MaxTokens
        /\ Hand(EmptyBag, Tokens(S, <<[sign |-> sign, amount |-> amount]>>))

Split ==
    \E self \in BagToSet(tokens), amount \in Balance :
        /\ BagCardinality(tokens) < MaxTokens
        /\ Hand(SetToBag({self}), split(S, self, amount))

Merge ==
    \E self \in BagToSet(tokens), other \in BagToSet(tokens) :
        /\ Held(self, other)
        /\ self.sign = other.sign
        /\ Hand(SetToBag({self}) (+) SetToBag({other}), merge(S, self, other))

Subsume ==
    \E self \in BagToSet(tokens), other \in BagToSet(tokens) :
        /\ Held(self, other)
        /\ self.sign = other.sign
        /\ Hand(SetToBag({self}) (+) SetToBag({other}), subsume(S, self, other))

Offset ==
    \E self \in BagToSet(tokens), other \in BagToSet(tokens) :
        /\ Held(self, other)
        /\ self.sign # other.sign
        /\ Hand(SetToBag({self}) (+) SetToBag({other}), offset(S, self, other))

DropZero ==
    \E self \in BagToSet(tokens) :
        Hand(SetToBag({self}), drop_zero(S, self))

\* A token goes out of scope.
DropImbalance ==
    \E self \in BagToSet(tokens) :
        Hand(SetToBag({self}), Tokens(drop(S, self), <<>>))

InitImbalance == Genesis({[a \in Accounts |-> NoVesting]}, {FALSE})

NextImbalance ==
    \/ NewImbalance
    \/ Split
    \/ Merge
    \/ Subsume
    \/ Offset
    \/ DropZero
    \/ DropImbalance

SpecImbalance == InitImbalance /\ [][NextImbalance]_vars

(***************************************************************************)
(* SpecLocks: the lock manager of one account under set_lock, extend_lock  *)
(* and remove_lock, with transfers and the oracle moving underneath.       *)
(***************************************************************************)

\* The lock identifiers of the modules that lock.
ManyLockIds == {1, 2}

ManyLockAmounts == {1, 3}

LockUntils == {1, 2}

ManyLockReasons == {{"Transfer"}, {"Reserve"}}

\* The account whose locks are managed.
LockHolders == {"A"}

SetLockMany ==
    \E id \in ManyLockIds, who \in LockHolders, amount \in ManyLockAmounts,
       until \in LockUntils, reasons \in ManyLockReasons :
        Commit(set_lock(S, id, who, amount, until, reasons))

ExtendLock ==
    \E id \in ManyLockIds, who \in LockHolders, amount \in ManyLockAmounts,
       until \in LockUntils, reasons \in ManyLockReasons :
        Commit(extend_lock(S, id, who, amount, until, reasons))

RemoveLock ==
    \E id \in ManyLockIds, who \in LockHolders :
        Commit(remove_lock(S, id, who))

\* Genesis endows the lock holder alone.
InitLocks ==
    /\ Genesis({[a \in Accounts |-> NoVesting]}, {FALSE})
    /\ DOMAIN FreeBalance = LockHolders

NextLocks ==
    \/ SetLockMany
    \/ ExtendLock
    \/ RemoveLock
    \/ Tick
    \/ EnsureCanWithdraw({0, MaxBalance})
    \/ Transfer(Balance)

SpecLocks == InitLocks /\ [][NextLocks]_vars

(***************************************************************************)
(* SpecReserve: the operations that move value between the free and the    *)
(* reserved side or slash it, on accounts that carry locks and vesting     *)
(* schedules.                                                              *)
(***************************************************************************)

InitReserve == Genesis(VestingSchedules, {FALSE})

NextReserve ==
    \/ SetLock
    \/ Reserve(Balance)
    \/ Unreserve(Balance)
    \/ SlashReserved(Balance)
    \/ RepatriateReserved(Balance)
    \/ Slash(Balance)
    \/ Withdraw(Balance, WithdrawReason)

SpecReserve == InitReserve /\ [][NextReserve]_vars

(***************************************************************************)
(* SpecDeposit: the absolute set of a free balance and the deposits, on a  *)
(* ledger where one account carries a lock and reserved balances exist.    *)
(***************************************************************************)

MakeFreeBalanceBe(V) ==
    \E who \in Accounts, balance \in V :
        Commit(make_free_balance_be(S, who, balance))

\* A lock on the lock holder that outlasts the oracle's range.
SetLockHolder ==
    \E id \in LockIds, who \in LockHolders, amount \in LockAmounts,
       reasons \in LockReasons :
        Commit(set_lock(S, id, who, amount, MaxMoment + 1, reasons))

InitDeposit == Genesis({[a \in Accounts |-> NoVesting]}, {FALSE})

NextDeposit ==
    \/ MakeFreeBalanceBe(Balance)
    \/ DepositCreating(Balance)
    \/ DepositIntoExisting(Balance)
    \/ Reserve(Balance)
    \/ Unreserve(Balance)
    \/ SetLockHolder

SpecDeposit == InitDeposit /\ [][NextDeposit]_vars

(***************************************************************************)
(* SpecTransfer: transfers on a ledger whose balances the root call sets,  *)
(* so that a balance can stand at the top of the balance range, with a     *)
(* lock on one account.                                                    *)
(***************************************************************************)

\* The balances the root call sets: none, and the largest.
RootBalances == {0, MaxBalance}

InitTransfer == Genesis({[a \in Accounts |-> NoVesting]}, {FALSE})

NextTransfer ==
    \/ Transfer(Balance)
    \/ SetBalance(RootBalances)
    \/ SetLockHolder

SpecTransfer == InitTransfer /\ [][NextTransfer]_vars

(***************************************************************************)
(* SpecVesting: an account under any vesting schedule of the balance       *)
(* range, with the oracle moving and the guard and transfers reading the   *)
(* schedule.                                                               *)
(***************************************************************************)

\* Every schedule { offset, per_block } of the balance range, on account A.
AnySchedules ==
    {[a \in Accounts |-> IF a = "A"
                         THEN [offset |-> o, per_block |-> p, some |-> TRUE]
                         ELSE NoVesting] : o \in Balance, p \in Balance}

InitVesting == Genesis(AnySchedules, {FALSE})

NextVesting ==
    \/ Tick
    \/ EnsureCanWithdraw(Balance)
    \/ Transfer(Balance)

SpecVesting == InitVesting /\ [][NextVesting]_vars

(***************************************************************************)
(* SpecPayment: transactions pay their fee while locks are set, time       *)
(* passes and a vesting schedule runs.                                     *)
(***************************************************************************)

\* The encoded lengths whose fee fits the balance type, as the fee of every
\* u32 length does with the fees of the chain specification.
FittingLens ==
    {n \in Balance : TransactionBaseFee + TransactionByteFee * n <= MaxBalance}

InitPayment == Genesis(VestingSchedules, {FALSE})

NextPayment ==
    \/ SetLock
    \/ Tick
    \/ MakePayment(FittingLens)

SpecPayment == InitPayment /\ [][NextPayment]_vars

(***************************************************************************)
(* SpecAbort: the panic handler of the node. Threads create and drop       *)
(* AbortGuards and panic; the hook exits the process or lets the panic     *)
(* unwind.                                                                 *)
(***************************************************************************)

\* The most guards one thread holds at once.
MaxGuards == 3

\* The panic handler's state as a call finds it.
P == [ABORT |-> ABORT, guards |-> guards]

\* set_abort: sets the flag of the calling thread, returns the previous
\* value.
set_abort(p, t, enabled) ==
    [p |-> [p EXCEPT !.ABORT[t] = enabled], prev |-> p.ABORT[t]]

\* AbortGuard::force_unwind
force_unwind(p, t) ==
    LET r == set_abort(p, t, FALSE)
    IN  [r.p EXCEPT !.guards[t] = Append(@, r.prev)]

\* AbortGuard::force_abort
force_abort(p, t) ==
    LET r == set_abort(p, t, TRUE)
    IN  [r.p EXCEPT !.guards[t] = Append(@, r.prev)]

\* A guard's drop that sets the flag instead of restoring it.
drop_guard_sets(p, t, i) ==
    LET r == set_abort(p, t, TRUE)
    IN  [r.p EXCEPT !.guards[t] = SubSeq(@, 1, i - 1) \o SubSeq(@, i + 1, Len(@))]

\* Drop for AbortGuard, of the i-th live guard of the thread.
drop_guard(p, t, i) ==
    LET r == set_abort(p, t, p.guards[t][i])
    IN  [r.p EXCEPT !.guards[t] = SubSeq(@, 1, i - 1) \o SubSeq(@, i + 1, Len(@))]

\* panic_hook: whether it exits the process.
panic_hook(p, t) == p.ABORT[t]

\* The drops of the k guards of the thread made last, the last one first.
RECURSIVE unwind(_, _, _)
unwind(p, t, k) ==
    IF k = 0 THEN p ELSE unwind(drop_guard(p, t, Len(p.guards[t])), t, k - 1)

\* The handler's state after a call.
Becomes(p) ==
    /\ ABORT' = p.ABORT
    /\ guards' = p.guards

Ledger == <<FreeBalance, ReservedBalance, TotalIssuance, Locks, Vesting,
            AccountNonce, now, overflow_checks, tokens>>

ForceUnwind ==
    \E t \in Threads :
        /\ exited = Running
        /\ Len(guards[t]) < MaxGuards
        /\ Becomes(force_unwind(P, t))
        /\ UNCHANGED <<Ledger, in_order, exited>>

ForceAbort ==
    \E t \in Threads :
        /\ exited = Running
        /\ Len(guards[t]) < MaxGuards
        /\ Becomes(force_abort(P, t))
        /\ UNCHANGED <<Ledger, in_order, exited>>

\* A guard goes out of scope or is dropped by hand, in any order.
DropGuard ==
    \E t \in Threads :
        \E i \in 1..Len(guards[t]) :
            /\ exited = Running
            /\ Becomes(drop_guard(P, t, i))
            /\ in_order' = [in_order EXCEPT ![t] = @ /\ i = Len(guards[t])]
            /\ UNCHANGED <<Ledger, exited>>

\* A thread panics: the hook exits the process when the flag is set;
\* otherwise the panic unwinds the stack up to the frame that catches it,
\* which drops the guards of the frames above, last-made first.
PanicHook ==
    \E t \in Threads :
        /\ exited = Running
        /\ IF panic_hook(P, t)
           THEN /\ exited' = t
                /\ UNCHANGED <<ABORT, guards>>
           ELSE /\ \E k \in 0..Len(guards[t]) : Becomes(unwind(P, t, k))
                /\ UNCHANGED exited
        /\ UNCHANGED <<Ledger, in_order>>

InitAbort ==
    /\ Genesis({[a \in Accounts |-> NoVesting]}, {FALSE})
    /\ FreeBalance = <<>>

NextAbort ==
    \/ ForceUnwind
    \/ ForceAbort
    \/ DropGuard
    \/ PanicHook

SpecAbort == InitAbort /\ [][NextAbort]_vars

(***************************************************************************)
(* Properties.                                                             *)
(***************************************************************************)

\* The sum over all accounts of freeBalance + reservedBalance.
BalanceSum(st) ==
    SumOver([a \in Accounts |-> free_balance(st, a) + reserved_balance(st, a)], Accounts)

\* The storage once the call has returned and its caller has dropped the
\* imbalance it was handed.
After(r) == drop(r.st, r.imbalance)

\* The call left every storage item as it found it, called no hook and
\* deposited no event.
Untouched(r) == r.st = S /\ r.imbalance = NoImbalance

\* The total issuance equals the sum of all free and reserved balances.
Conserved(st) == total_issuance(st) = BalanceSum(st)

\* C1: conservation. From a state where the total issuance equals the sum of
\* all free and reserved balances, it still does after every completed
\* transfer, slash, reserve, unreserve or set_balance call, successful or
\* failed, once the returned imbalance is dropped and the hooks have burnt
\* what they were handed.
C1_Conservation ==
    Conserved(S) =>
        /\ \A a \in Accounts, b \in Accounts, v \in Balance :
               Conserved(After(transfer(S, a, b, v)))
        /\ \A a \in Accounts, v \in Balance :
               /\ Conserved(After(slash(S, a, v)))
               /\ Conserved(After(reserve(S, a, v)))
               /\ Conserved(After(unreserve(S, a, v)))
        /\ \A a \in Accounts, f \in Balance, r \in Balance :
               Conserved(After(set_balance(S, a, f, r)))

\* C2: fail-fast. Whenever transfer, withdraw, reserve, repatriate_reserved,
\* deposit_into_existing or make_payment returns an error, every free
\* balance, reserved balance, lock list, nonce and the total issuance is as
\* before the call, and no hook was called and no event deposited.
C2_FailFast ==
    /\ \A a \in Accounts, b \in Accounts, v \in Balance :
           /\ transfer(S, a, b, v).res \in Errors => Untouched(transfer(S, a, b, v))
           /\ repatriate_reserved(S, a, b, v).res \in Errors
                  => Untouched(repatriate_reserved(S, a, b, v))
    /\ \A a \in Accounts, v \in Balance :
           /\ reserve(S, a, v).res \in Errors => Untouched(reserve(S, a, v))
           /\ deposit_into_existing(S, a, v).res \in Errors
                  => Untouched(deposit_into_existing(S, a, v))
           /\ make_payment(S, a, v).res \in Errors => Untouched(make_payment(S, a, v))
           /\ \A reason \in WithdrawReason, liveness \in {KeepAlive, AllowDeath} :
                  withdraw(S, a, v, reason, liveness).res \in Errors
                      => Untouched(withdraw(S, a, v, reason, liveness))

\* A state in which a lock refuses a transfer, a payment or a withdrawal
\* would kill the account, a reserve lacks the funds and a repatriation
\* lacks its beneficiary.
C2_Witness ==
    \E a \in Accounts, b \in Accounts :
        /\ a # b
        /\ \E v \in Balance : transfer(S, a, b, v).res = LockRestricted
        /\ \E v \in Balance : make_payment(S, a, v).res = AccountWouldDie
        /\ \E v \in Balance : withdraw(S, a, v, "Transfer", KeepAlive).res = AccountWouldDie
        /\ \E v \in Balance : reserve(S, a, v).res = InsufficientFunds
        /\ \E v \in Balance : repatriate_reserved(S, a, b, v).res = AccountMustPreexist

\* C3: existential-deposit invariant. In every state the ledger operations
\* reach from genesis, each account's free balance is 0 or at least the
\* existential deposit, and so is each account's reserved balance.
C3_ExistentialDeposit ==
    \A a \in Accounts :
        /\ free_balance(S, a) = 0 \/ free_balance(S, a) >= ExistentialDeposit
        /\ reserved_balance(S, a) = 0 \/ reserved_balance(S, a) >= ExistentialDeposit

\* A state from which a slash leaves a free remainder below the existential
\* deposit and an unreserve leaves such a reserved remainder: both are
\* written as zero.
C3_Witness ==
    \E a \in Accounts :
        /\ \E v \in Balance :
               /\ free_balance(S, a) - v \in 1..(ExistentialDeposit - 1)
               /\ free_balance(After(slash(S, a, v)), a) = 0
        /\ \E v \in Balance :
               /\ reserved_balance(S, a) - v \in 1..(ExistentialDeposit - 1)
               /\ unreserve(S, a, v).res = Ok
               /\ reserved_balance(After(unreserve(S, a, v)), a) = 0

\* split, merge, subsume and offset of live tokens leave the total issuance
\* alone; a split's parts and an offset's result keep the magnitudes.
ConsumeKeepsIssuance ==
    /\ \A self \in BagToSet(tokens), amount \in Balance :
           /\ total_issuance(split(S, self, amount).st) = TotalIssuance
           /\ split(S, self, amount).out[1].amount + split(S, self, amount).out[2].amount
                  = self.amount
    /\ \A self \in BagToSet(tokens), other \in BagToSet(tokens) :
           Held(self, other) =>
               IF self.sign = other.sign
               THEN /\ total_issuance(merge(S, self, other).st) = TotalIssuance
                    /\ total_issuance(subsume(S, self, other).st) = TotalIssuance
               ELSE total_issuance(offset(S, self, other).st) = TotalIssuance

\* A step that changes the total issuance is the end of one live token,
\* which leaves the pool, and of nothing else.
IssuanceMovesByOneDrop ==
    TotalIssuance' # TotalIssuance =>
        \E self \in BagToSet(tokens) :
            /\ tokens' = tokens (-) SetToBag({self})
            /\ TotalIssuance' = total_issuance(drop(S, self))

\* C4 as stated: the drop of a token changes the total issuance by exactly
\* +magnitude for a positive and -magnitude for a negative token, and
\* split, merge and offset leave it alone.
C4_DropExact ==
    /\ ConsumeKeepsIssuance
    /\ \A self \in BagToSet(tokens) :
           total_issuance(drop(S, self)) =
               IF self.sign = "Positive" THEN TotalIssuance + self.amount
               ELSE TotalIssuance - self.amount

\* C4: every imbalance token ends exactly once. split, merge, subsume and
\* offset consume their inputs without touching the total issuance, and the
\* drop of a token moves the total issuance by its magnitude, up for a
\* positive and down for a negative token, clamped at the ends of the
\* balance range; the total issuance moves in no other way.
C4_TokenEndOfLife ==
    /\ [](/\ ConsumeKeepsIssuance
          /\ \A self \in BagToSet(tokens) :
                 total_issuance(drop(S, self)) =
                     IF self.sign = "Positive"
                     THEN Min(TotalIssuance + self.amount, MaxBalance)
                     ELSE Max(TotalIssuance - self.amount, 0))
    /\ [][IssuanceMovesByOneDrop]_vars

\* A positive and a negative token of different magnitudes are held: their
\* offset leaves one token, the drop of the positive one moves the
\* issuance by its magnitude and the drop of the negative one is clamped.
C4_Witness ==
    \E self \in BagToSet(tokens), other \in BagToSet(tokens) :
        /\ self.sign = "Positive" /\ other.sign = "Negative"
        /\ self.amount > 0 /\ other.amount > self.amount
        /\ offset(S, self, other).out = <<[sign |-> "Negative", amount |-> other.amount - self.amount]>>
        /\ total_issuance(drop(S, self)) = TotalIssuance + self.amount
        /\ total_issuance(drop(S, other)) = 0
        /\ other.amount > TotalIssuance

\* The events of one kind a call deposited.
EventsOf(st, kind) == SelectSeq(st.events, LAMBDA e : e[1] = kind)

\* The fee the claims expect of a transfer to dest.
FeeCharged(dest) == IF free_balance(S, dest) = 0 THEN CreationFee ELSE TransferFee

\* The sender's free balance less the value and the fee.
Remainder(transactor, dest, value) ==
    free_balance(S, transactor) - value - FeeCharged(dest)

\* C5: a successful transfer between distinct accounts charges the creation
\* fee if the destination's free balance was zero and the transfer fee
\* otherwise, leaves the sender with its old free balance less value and
\* fee (when that is at least the existential deposit) and the destination
\* with its old free balance plus value, and deposits exactly one Transfer
\* event (from, to, value, fee).
C5_TransferEffect ==
    \A transactor \in Accounts, dest \in Accounts, value \in Balance :
        LET r == transfer(S, transactor, dest, value)
        IN  (transactor # dest /\ r.res = Ok) =>
                /\ Remainder(transactor, dest, value) >= ExistentialDeposit
                       => free_balance(r.st, transactor) = Remainder(transactor, dest, value)
                /\ free_balance(r.st, dest) = free_balance(S, dest) + value
                /\ EventsOf(r.st, "Transfer")
                       = << <<"Transfer", transactor, dest, value, FeeCharged(dest)>> >>

\* A state from which a transfer creates its destination, leaving the
\* sender alive, and the destination can then pay the sender back.
C5_Witness ==
    \E transactor \in Accounts, dest \in Accounts, value \in Balance :
        /\ transactor # dest
        /\ transfer(S, transactor, dest, value).res = Ok
        /\ Remainder(transactor, dest, value) >= ExistentialDeposit
        /\ free_balance(S, dest) = 0
        /\ \E value2 \in Balance :
               /\ transfer(S, dest, transactor, value2).res \in Errors
               /\ transfer(After(transfer(S, transactor, dest, value)),
                           dest, transactor, value2).res = Ok
               /\ EventsOf(transfer(After(transfer(S, transactor, dest, value)),
                                    dest, transactor, value2).st, "Transfer")
                      = << <<"Transfer", transactor, dest, value, CreationFee>>,
                           <<"Transfer", dest, transactor, value2, TransferFee>> >>

\* The part of the sender's balance a transfer burns as dust.
Dust(transactor, dest, value) ==
    IF Remainder(transactor, dest, value) \in 1..(ExistentialDeposit - 1)
    THEN Remainder(transactor, dest, value) ELSE 0

Unrestricted(transactor, dest, value) ==
    /\ value + FeeCharged(dest) <= MaxBalance
    /\ Remainder(transactor, dest, value) >= 0
    /\ \/ ~Vesting[transactor].some
       \/ locked_at(Vesting[transactor], now) <= Remainder(transactor, dest, value)
    /\ \A i \in 1..Len(Locks[transactor]) :
           \/ Locks[transactor][i].until <= now
           \/ Locks[transactor][i].amount <= Remainder(transactor, dest, value)
           \/ "Transfer" \notin Locks[transactor][i].reasons

\* C7: for a sender with the funds and no lock or vesting restriction, a
\* transfer to a destination whose free balance is zero succeeds and
\* creates the destination when value >= ExistentialDeposit, and fails with
\* ValueBelowExistentialDeposit, leaving both accounts unchanged, when
\* value < ExistentialDeposit.
C7_CreationBoundary ==
    \A transactor \in Accounts, dest \in Accounts, value \in Balance :
        LET r == transfer(S, transactor, dest, value)
        IN  (free_balance(S, dest) = 0 /\ Unrestricted(transactor, dest, value)) =>
                IF value >= ExistentialDeposit
                THEN /\ r.res = Ok
                     /\ exists(r.st, dest)
                     /\ free_balance(r.st, dest) = value
                     /\ EventsOf(r.st, "NewAccount") = << <<"NewAccount", dest, value>> >>
                     /\ \E i \in 1..Len(r.st.hooks) : r.st.hooks[i] = <<"on_new_account", dest>>
                ELSE /\ r.res = ValueBelowExistentialDeposit
                     /\ Untouched(r)

\* A sender under an expired lock that can create the destination with
\* exactly the existential deposit and not with one unit less.
C7_Witness ==
    \E transactor \in Accounts, dest \in Accounts :
        /\ free_balance(S, dest) = 0
        /\ Locks[transactor] # <<>>
        /\ Unrestricted(transactor, dest, ExistentialDeposit)
        /\ transfer(S, transactor, dest, ExistentialDeposit).res = Ok
        /\ exists(transfer(S, transactor, dest, ExistentialDeposit).st, dest)
        /\ Unrestricted(transactor, dest, ExistentialDeposit - 1)
        /\ transfer(S, transactor, dest, ExistentialDeposit - 1).res
               = ValueBelowExistentialDeposit

\* The storage as a call finds it at the oracle's moment t.
At(t) == [S EXCEPT !.now = t]

\* The amount of who's vesting schedule still locked at moment t.
LockedAt(who, t) == IF Vesting[who].some THEN locked_at(Vesting[who], t) ELSE 0

\* The transfer has the funds, creates no account below the existential
\* deposit and does not overflow the destination.
Fundable(transactor, dest, value) ==
    /\ value + FeeCharged(dest) <= MaxBalance
    /\ Remainder(transactor, dest, value) >= 0
    /\ free_balance(S, dest) + value <= MaxBalance
    /\ free_balance(S, dest) = 0 => value >= ExistentialDeposit

\* At moment t nothing but the transactor's i-th lock restricts a transfer
\* that leaves it the balance rem.
OnlyLock(transactor, i, rem, t) ==
    /\ LockedAt(transactor, t) <= rem
    /\ \A j \in 1..Len(Locks[transactor]) :
           j # i =>
               \/ Locks[transactor][j].until <= t
               \/ Locks[transactor][j].amount <= rem
               \/ "Transfer" \notin Locks[transactor][j].reasons

\* C8: with a lock (amount L, until T, reasons containing Transfer) on an
\* account, a transfer from it that would leave its free balance below L
\* fails with LiquidityRestricted while the lock is unexpired, and the same
\* transfer from the same ledger state succeeds at every moment after T:
\* the lock never blocks it again.
C8_LockExpires ==
    \A transactor \in Accounts, dest \in Accounts, value \in Balance :
        \A i \in 1..Len(Locks[transactor]) :
            LET l == Locks[transactor][i]
                rem == Remainder(transactor, dest, value)
            IN  ("Transfer" \in l.reasons /\ Fundable(transactor, dest, value)
                     /\ rem < l.amount) =>
                    /\ now < l.until
                           => transfer(S, transactor, dest, value).res \in LiquidityRestricted
                    /\ \A t \in Moment :
                           (t > l.until /\ OnlyLock(transactor, i, rem, t))
                               => transfer(At(t), transactor, dest, value).res = Ok

\* A lock refuses a transfer now and, with the ledger as it is, lets it
\* through at a moment after the lock's expiry.
C8_Witness ==
    \E transactor \in Accounts, dest \in Accounts, value \in Balance, t \in Moment :
        /\ transactor # dest
        /\ Len(Locks[transactor]) = 1
        /\ "Transfer" \in Locks[transactor][1].reasons
        /\ now < Locks[transactor][1].until
        /\ t > Locks[transactor][1].until
        /\ Remainder(transactor, dest, value) < Locks[transactor][1].amount
        /\ transfer(S, transactor, dest, value).res = LockRestricted
        /\ transfer(At(t), transactor, dest, value).res = Ok

\* C9 as stated: ensure_can_withdraw fails with LiquidityRestricted whenever
\* the reason is Reserve or Transfer and the vesting schedule's locked
\* amount at the current moment exceeds the resulting balance, for every
\* free balance and every resulting balance.
C9_VestingLocked ==
    \A who \in Accounts, reason \in {"Reserve", "Transfer"}, new_balance \in Balance :
        (Vesting[who].some /\ locked_at(Vesting[who], now) > new_balance)
            => ensure_can_withdraw(S, who, 0, reason, new_balance).res \in LiquidityRestricted

\* C9: ensure_can_withdraw fails on vesting exactly when the reason is
\* Reserve or Transfer and the smaller of the account's free balance and
\* its vesting schedule's locked amount at the current moment exceeds the
\* resulting balance; a resulting balance that is no less than the free
\* balance never fails on vesting.
C9_VestingCapped ==
    \A who \in Accounts, reason \in WithdrawReason, new_balance \in Balance :
        ensure_can_withdraw(S, who, 0, reason, new_balance).res = VestingRestricted
            <=> /\ reason \in {"Reserve", "Transfer"}
                /\ LockedAt(who, now) > new_balance
                /\ free_balance(S, who) > new_balance

\* An account whose schedule locks more than its free balance: the guard
\* passes a resulting balance equal to the free balance and refuses a
\* smaller one.
C9_Witness ==
    \E who \in Accounts :
        /\ Vesting[who].some
        /\ free_balance(S, who) > 0
        /\ LockedAt(who, now) > free_balance(S, who)
        /\ ensure_can_withdraw(S, who, 0, "Transfer", free_balance(S, who)).res = Ok
        /\ ensure_can_withdraw(S, who, 1, "Transfer", free_balance(S, who) - 1).res
               = VestingRestricted

\* C10: when the vesting check passes, ensure_can_withdraw fails exactly
\* when some lock of the account with until > now whose reasons include the
\* requested reason has amount > the resulting balance (a lock with
\* until = now does not restrict); the call changes no balance, lock or
\* total issuance.
C10_LockCheck ==
    \A who \in Accounts, reason \in WithdrawReason, new_balance \in Balance :
        LET r == ensure_can_withdraw(S, who, 0, reason, new_balance)
        IN  /\ r.res # VestingRestricted =>
                   (r.res # Ok <=>
                        \E i \in 1..Len(Locks[who]) :
                            /\ Locks[who][i].until > now
                            /\ reason \in Locks[who][i].reasons
                            /\ Locks[who][i].amount > new_balance)
            /\ r.res \in {Ok, VestingRestricted, LockRestricted}
            /\ Untouched(r)

\* A lock that runs out at the current moment lets through a withdrawal
\* it would have refused, and an unexpired one refuses another.
C10_Witness ==
    \E who \in Accounts, other \in Accounts, new_balance \in Balance :
        /\ Len(Locks[who]) = 1
        /\ Locks[who][1].until = now
        /\ Locks[who][1].amount > new_balance
        /\ "Transfer" \in Locks[who][1].reasons
        /\ ensure_can_withdraw(S, who, 0, "Transfer", new_balance).res = Ok
        /\ Len(Locks[other]) = 1
        /\ Locks[other][1].until > now
        /\ \E reason \in WithdrawReason :
               ensure_can_withdraw(S, other, 0, reason, new_balance).res = LockRestricted

\* The stored locks of who with the id.
WithId(ls, id) == SelectSeq(ls, LAMBDA l : l.id = id)

\* The stored locks of who with another id that have not expired.
OthersAlive(ls, id) == SelectSeq(ls, LAMBDA l : l.id # id /\ l.until > now)

\* The lock refuses a withdrawal for the reason that leaves new_balance at
\* moment t.
Blocks(l, reason, new_balance, t) ==
    /\ t < l.until
    /\ new_balance < l.amount
    /\ reason \in l.reasons

\* C11: extend_lock never relaxes a restriction. If a lock with the id is
\* stored, the resulting lock has the larger amount, the later until and
\* the union of the reasons, so whatever the old lock blocked is still
\* blocked; if none is stored, the new lock is added as given; every other
\* lock with until > now is kept unchanged.
C11_ExtendLock ==
    \A id \in ManyLockIds, who \in LockHolders, amount \in ManyLockAmounts,
       until \in Moment, reasons \in ManyLockReasons :
        \A after \in {extend_lock(S, id, who, amount, until, reasons).st.Locks[who]} :
            \A old \in {WithId(Locks[who], id)}, new \in {WithId(after, id)} :
                /\ Len(new) = 1
                /\ old # <<>> =>
                       /\ new[1] = BalanceLock(id, Max(old[1].amount, amount),
                                               Max(old[1].until, until),
                                               old[1].reasons \cup reasons)
                       /\ \A reason \in WithdrawReason, new_balance \in Balance,
                             t \in Moment :
                              Blocks(old[1], reason, new_balance, t)
                                  => Blocks(new[1], reason, new_balance, t)
                /\ old = <<>> => new[1] = BalanceLock(id, amount, until, reasons)
                /\ OthersAlive(after, id) = OthersAlive(Locks[who], id)

\* Two unexpired locks are stored, and extending the larger one with a
\* smaller amount, an earlier until and another reason keeps its amount and
\* until and widens its reasons.
C11_Witness ==
    \E who \in Accounts, id \in ManyLockIds :
        /\ Len(Locks[who]) = 2
        /\ OthersAlive(Locks[who], id) # <<>>
        /\ WithId(Locks[who], id) # <<>>
        /\ WithId(Locks[who], id)[1].amount = 3
        /\ WithId(Locks[who], id)[1].until = 2
        /\ WithId(Locks[who], id)[1].reasons = {"Transfer"}
        /\ WithId(extend_lock(S, id, who, 1, 1, {"Reserve"}).st.Locks[who], id)
               = <<BalanceLock(id, 3, 2, {"Transfer", "Reserve"})>>

\* C12: after set_lock(id, who, amount, until, reasons) the account's lock
\* list holds exactly one lock with the id, carrying exactly the given
\* amount, until and reasons, and every other stored lock with until > now
\* is still there, unchanged.
C12_SetLock ==
    \A id \in ManyLockIds, who \in LockHolders, amount \in ManyLockAmounts,
       until \in Moment, reasons \in ManyLockReasons :
        \A after \in {set_lock(S, id, who, amount, until, reasons).st.Locks[who]} :
            /\ WithId(after, id) = <<BalanceLock(id, amount, until, reasons)>>
            /\ OthersAlive(after, id) = OthersAlive(Locks[who], id)

\* A lock is stored first in a list of two unexpired locks, and set_lock
\* replaces it in place with a smaller one.
C12_Witness ==
    \E who \in Accounts :
        /\ Len(Locks[who]) = 2
        /\ Locks[who][1].amount = 3 /\ Locks[who][1].until > now
        /\ Locks[who][2].until > now
        /\ set_lock(S, Locks[who][1].id, who, 1, MaxMoment, {"Reserve"}).st.Locks[who]
               = <<BalanceLock(Locks[who][1].id, 1, MaxMoment, {"Reserve"}), Locks[who][2]>>

\* C13: lock ids are unique per account. In every state that set_lock,
\* extend_lock, remove_lock and the balance operations reach from an empty
\* lock list, no account has two stored locks with the same id.
C13_UniqueIds ==
    \A who \in Accounts :
        \A i \in 1..Len(Locks[who]), j \in 1..Len(Locks[who]) :
            i # j => Locks[who][i].id # Locks[who][j].id

\* A lock list that holds every id once, one of the locks set and the
\* other extended, after the oracle has moved.
C13_Witness ==
    \E who \in Accounts :
        /\ now > 0
        /\ {Locks[who][i].id : i \in 1..Len(Locks[who])} = ManyLockIds
        /\ \E i \in 1..Len(Locks[who]) : Locks[who][i].reasons = {"Transfer", "Reserve"}
        /\ \E i \in 1..Len(Locks[who]) : Locks[who][i].reasons = {"Reserve"}

\* No lock of the list has expired.
NoneExpired(ls) == \A i \in 1..Len(ls) : ls[i].until > now

\* C14 as stated: after any lock mutation on an account and after any read
\* of its locks, no lock with until <= now remains stored for the account.
C14_LazyPurge ==
    \A who \in LockHolders :
        /\ \A id \in ManyLockIds, amount \in ManyLockAmounts, until \in Moment,
              reasons \in ManyLockReasons :
               /\ NoneExpired(set_lock(S, id, who, amount, until, reasons).st.Locks[who])
               /\ NoneExpired(extend_lock(S, id, who, amount, until, reasons).st.Locks[who])
        /\ \A id \in ManyLockIds : NoneExpired(remove_lock(S, id, who).st.Locks[who])
        /\ \A reason \in WithdrawReason, new_balance \in Balance :
               NoneExpired(ensure_can_withdraw(S, who, 0, reason, new_balance).st.Locks[who])
        /\ NoneExpired(locks(S, who))

\* C14: the lock mutations purge, the reads do not. After set_lock or
\* extend_lock no lock with another id and until <= now remains stored for
\* the account, while the lock they write is stored whatever its until;
\* after remove_lock no lock with until <= now remains at all; the locks
\* query and ensure_can_withdraw leave the stored list as it is.
C14_PurgeOnWrite ==
    \A who \in LockHolders :
        /\ \A id \in ManyLockIds, amount \in ManyLockAmounts, until \in Moment,
              reasons \in ManyLockReasons :
               \A set \in {set_lock(S, id, who, amount, until, reasons).st.Locks[who]},
                  ext \in {extend_lock(S, id, who, amount, until, reasons).st.Locks[who]} :
                   /\ \A i \in 1..Len(set) : set[i].id # id => set[i].until > now
                   /\ \A i \in 1..Len(ext) : ext[i].id # id => ext[i].until > now
                   /\ \E i \in 1..Len(set) : set[i].id = id /\ set[i].until = until
        /\ \A id \in ManyLockIds : NoneExpired(remove_lock(S, id, who).st.Locks[who])
        /\ \A reason \in WithdrawReason, new_balance \in Balance :
               ensure_can_withdraw(S, who, 0, reason, new_balance).st.Locks[who] = Locks[who]
        /\ locks(S, who) = Locks[who]

\* An expired lock is stored: the guard reads the list and leaves it
\* there, set_lock on the other id purges it, and set_lock with a past
\* until stores a lock that has already expired.
C14_Witness ==
    \E who \in Accounts, id \in ManyLockIds :
        /\ WithId(Locks[who], id) # <<>>
        /\ WithId(Locks[who], id)[1].until <= now
        /\ ~NoneExpired(ensure_can_withdraw(S, who, 0, "Transfer", 0).st.Locks[who])
        /\ \E other \in ManyLockIds \ {id} :
               /\ NoneExpired(set_lock(S, other, who, 1, MaxMoment, {"Transfer"}).st.Locks[who])
               /\ NoneExpired(remove_lock(S, other, who).st.Locks[who])
        /\ ~NoneExpired(set_lock(S, id, who, 1, now, {"Transfer"}).st.Locks[who])

\* C15: after remove_lock(id, who) no lock with the id is stored for who,
\* every other lock with until > now is still stored unchanged, and no
\* balance and no total issuance changes.
C15_RemoveLock ==
    \A id \in ManyLockIds, who \in LockHolders :
        LET r == remove_lock(S, id, who)
        IN  /\ WithId(r.st.Locks[who], id) = <<>>
            /\ OthersAlive(r.st.Locks[who], id) = OthersAlive(Locks[who], id)
            /\ [r.st EXCEPT !.Locks[who] = Locks[who]] = S
            /\ r.res = Ok /\ r.imbalance = NoImbalance

\* Two unexpired locks are stored, and removing one leaves the other.
C15_Witness ==
    \E who \in Accounts :
        /\ Len(Locks[who]) = 2
        /\ NoneExpired(Locks[who])
        /\ remove_lock(S, Locks[who][1].id, who).st.Locks[who] = <<Locks[who][2]>>
        /\ remove_lock(S, Locks[who][2].id, who).st.Locks[who] = <<Locks[who][1]>>

\* The storage with the heaviest restrictions on every account: a lock on
\* the whole balance range for every reason that never expires within the
\* oracle's range, and a vesting schedule that never unlocks.
Restricted(st) ==
    [st EXCEPT
        !.Locks = [a \in Accounts |->
                      <<BalanceLock(1, MaxBalance, MaxMoment + 1, WithdrawReason)>>],
        !.Vesting = [a \in Accounts |->
                        [offset |-> MaxBalance, per_block |-> 0, some |-> TRUE]]]

\* The storage without any lock or vesting schedule.
Unlocked(st) ==
    [st EXCEPT !.Locks = [a \in Accounts |-> <<>>],
               !.Vesting = [a \in Accounts |-> NoVesting]]

\* Two calls return the same and leave the same balances and issuance.
SameOutcome(r1, r2) ==
    /\ r1.res = r2.res
    /\ r1.imbalance = r2.imbalance
    /\ r1.value = r2.value
    /\ After(r1).FreeBalance = After(r2).FreeBalance
    /\ After(r1).ReservedBalance = After(r2).ReservedBalance
    /\ After(r1).TotalIssuance = After(r2).TotalIssuance

\* C16: locks and vesting never restrict a free-balance increase or a
\* reserved-balance decrease. unreserve, slash_reserved,
\* repatriate_reserved, deposit_into_existing and deposit_creating return
\* the same result and leave the same balances whatever locks and vesting
\* schedules the accounts carry.
C16_IncreaseUnrestricted ==
    \A who \in Accounts, value \in Balance :
        \A other \in {Unlocked(S), Restricted(S)} :
            /\ \A r1 \in {unreserve(S, who, value)}, r2 \in {unreserve(other, who, value)} :
                   SameOutcome(r1, r2)
            /\ \A r1 \in {slash_reserved(S, who, value)},
                  r2 \in {slash_reserved(other, who, value)} :
                   SameOutcome(r1, r2)
            /\ \A r1 \in {deposit_into_existing(S, who, value)},
                  r2 \in {deposit_into_existing(other, who, value)} :
                   SameOutcome(r1, r2)
            /\ \A r1 \in {deposit_creating(S, who, value)},
                  r2 \in {deposit_creating(other, who, value)} :
                   SameOutcome(r1, r2)
            /\ \A beneficiary \in Accounts :
                   \A r1 \in {repatriate_reserved(S, who, beneficiary, value)},
                      r2 \in {repatriate_reserved(other, who, beneficiary, value)} :
                       SameOutcome(r1, r2)

\* An account with a reserved balance: under the heaviest lock and vesting
\* schedule a reserve from it is refused, while an unreserve, a deposit
\* and a repatriation move the value all the same.
C16_Witness ==
    \E who \in Accounts, beneficiary \in Accounts, value \in Balance :
        /\ value > 0
        /\ reserve(S, who, value).res = Ok
        /\ reserve(Restricted(S), who, value).res \in LiquidityRestricted
        /\ reserved_balance(S, who) >= value
        /\ unreserve(Restricted(S), who, value).res = Ok
        /\ free_balance(unreserve(Restricted(S), who, value).st, who)
               = free_balance(S, who) + value
        /\ repatriate_reserved(Restricted(S), who, beneficiary, value).res = Ok
        /\ free_balance(repatriate_reserved(Restricted(S), who, beneficiary, value).st,
                        beneficiary) = free_balance(S, beneficiary) + value
        /\ deposit_creating(Restricted(S), who, 0).res = Ok

\* The part of value a slash can take from who.
Slashable(who, value) == Min(value, free_balance(S, who) + reserved_balance(S, who))

\* C17: slash never fails and returns a negative token of magnitude
\* min(value, free + reserved) and the remainder value - min(value, free +
\* reserved); when value >= free + reserved both balances are zero
\* afterwards and the account is reaped: its nonce is removed and
\* ReapedAccount deposited.
C17_SlashResult ==
    \A who \in Accounts, value \in Balance :
        \A r \in {slash(S, who, value)} :
            /\ r.res = Ok
            /\ r.imbalance = NegativeImbalance(Slashable(who, value))
            /\ r.value = value - Slashable(who, value)
            /\ r.imbalance.amount + r.value = value
            /\ value >= free_balance(S, who) + reserved_balance(S, who) =>
                   /\ free_balance(r.st, who) = 0
                   /\ reserved_balance(r.st, who) = 0
                   /\ who \notin r.st.AccountNonce
                   /\ EventsOf(r.st, "ReapedAccount") # <<>>

\* An account with a nonce and both balances: a slash of both takes them
\* and reaps it, a smaller one is met in full, and some slash leaves a
\* remainder.
C17_Witness ==
    \E who \in Accounts, value \in Balance :
        /\ who \in AccountNonce
        /\ free_balance(S, who) > 0 /\ reserved_balance(S, who) > 0
        /\ value >= free_balance(S, who) + reserved_balance(S, who)
        /\ who \notin slash(S, who, value).st.AccountNonce
        /\ slash(S, who, value).imbalance.amount
               = free_balance(S, who) + reserved_balance(S, who)
        /\ slash(S, who, free_balance(S, who) + 1).value = 0
        /\ slash(S, who, free_balance(S, who) + 1).imbalance.amount = free_balance(S, who) + 1
        /\ \E other \in Accounts, more \in Balance :
               /\ slash(S, other, more).value > 0
               /\ slash(S, other, more).imbalance.amount + slash(S, other, more).value = more

\* The part of value that exceeds who's free balance, as far as the
\* reserved balance covers it.
Excess(who, value) ==
    Min(reserved_balance(S, who), Max(value - free_balance(S, who), 0))

\* C18 as stated: slash leaves the reserved balance unchanged whenever
\* value <= free balance, and reduces it only by the part of value that
\* exceeds the free balance.
C18_ReservedLessExcess ==
    \A who \in Accounts, value \in Balance :
        reserved_balance(slash(S, who, value).st, who)
            = reserved_balance(S, who) - Excess(who, value)

\* C18: slash draws from the free balance first. Whenever value <= free
\* balance the reserved balance is unchanged; otherwise the reserved
\* balance loses the part of value that exceeds the free balance and, if
\* what is left is below the existential deposit, that too: it is burnt as
\* dust and the reserved balance is zero.
C18_FreeFirst ==
    \A who \in Accounts, value \in Balance :
        \A r \in {slash(S, who, value)} :
            /\ value <= free_balance(S, who)
                   => reserved_balance(r.st, who) = reserved_balance(S, who)
            /\ reserved_balance(r.st, who) =
                   IF value > free_balance(S, who)
                        /\ reserved_balance(S, who) - Excess(who, value) < ExistentialDeposit
                   THEN 0
                   ELSE reserved_balance(S, who) - Excess(who, value)
            /\ free_balance(S, who) - Min(free_balance(S, who), value) >= ExistentialDeposit
                   => free_balance(r.st, who)
                          = free_balance(S, who) - Min(free_balance(S, who), value)
            /\ value > free_balance(S, who) => free_balance(r.st, who) = 0

\* An account with both balances: a slash within the free balance leaves
\* the reserved one, a slash of everything takes all of it, and a slash of
\* one unit more than the free balance leaves a reserved remainder below
\* the existential deposit, which is burnt.
C18_Witness ==
    \E who \in Accounts :
        /\ free_balance(S, who) > 0
        /\ reserved_balance(S, who) >= ExistentialDeposit
        /\ reserved_balance(slash(S, who, free_balance(S, who)).st, who)
               = reserved_balance(S, who)
        /\ free_balance(slash(S, who, free_balance(S, who) - 1).st, who) = 0
        /\ reserved_balance(slash(S, who, free_balance(S, who) - 1).st, who)
               = reserved_balance(S, who)
        /\ reserved_balance(S, who) - 1 \in 1..(ExistentialDeposit - 1)
        /\ reserved_balance(slash(S, who, free_balance(S, who) + 1).st, who) = 0
        /\ slash(S, who, free_balance(S, who) + 1).imbalance.amount
               = free_balance(S, who) + 1

\* C19: round trip. For every account and every v <= its free balance for
\* which reserve succeeds, reserve followed by unreserve of v restores the
\* account's free and reserved balances and leaves the total issuance
\* unchanged.
C19_RoundTrip ==
    \A who \in Accounts, value \in Balance :
        (value <= free_balance(S, who) /\ reserve(S, who, value).res = Ok) =>
            \A back \in {After(unreserve(After(reserve(S, who, value)), who, value))} :
                /\ free_balance(back, who) = free_balance(S, who)
                /\ reserved_balance(back, who) = reserved_balance(S, who)
                /\ total_issuance(back) = TotalIssuance

\* C20: reserve and unreserve only move value between the two sides of one
\* account. A successful reserve and any unreserve leave free + reserved
\* of the account and the total issuance unchanged, and a reserve is
\* validated by the withdrawal guard with reason Reserve against the free
\* balance after the decrease.
C20_MoveOnly ==
    \A who \in Accounts, value \in Balance :
        /\ reserve(S, who, value).res = Ok =>
               /\ free_balance(After(reserve(S, who, value)), who)
                      + reserved_balance(After(reserve(S, who, value)), who)
                      = free_balance(S, who) + reserved_balance(S, who)
               /\ total_issuance(After(reserve(S, who, value))) = TotalIssuance
               /\ ensure_can_withdraw(S, who, value, "Reserve",
                                      free_balance(S, who) - value).res = Ok
        /\ unreserve(S, who, value).res = Ok =>
               /\ free_balance(After(unreserve(S, who, value)), who)
                      + reserved_balance(After(unreserve(S, who, value)), who)
                      = free_balance(S, who) + reserved_balance(S, who)
               /\ total_issuance(After(unreserve(S, who, value))) = TotalIssuance

\* C21: unreserve never fails. It takes m = min(reserved, value) out of
\* the reserved balance, which is reserved - m afterwards, puts m on the
\* free balance, and returns value - m, which is zero exactly when
\* reserved >= value.
C21_UnreserveMoves ==
    \A who \in Accounts, value \in Balance :
        \A r \in {unreserve(S, who, value)} :
            \A m \in {Min(reserved_balance(S, who), value)} :
                /\ r.res = Ok
                /\ r.value = value - m
                /\ (r.value = 0) <=> (reserved_balance(S, who) >= value)
                /\ reserved_balance(r.st, who) = reserved_balance(S, who) - m
                /\ free_balance(r.st, who) = free_balance(S, who) + m

\* C22: repatriate_reserved fails with AccountMustPreexist and changes
\* nothing when the beneficiary's free + reserved is zero; otherwise it
\* takes m = min(reserved[slashed], value) off the reserved balance of
\* slashed, puts m on the free balance of the beneficiary and returns
\* value - m, also when slashed and beneficiary are one account.
C22_Repatriate ==
    \A slashed \in Accounts, beneficiary \in Accounts, value \in Balance :
        \A r \in {repatriate_reserved(S, slashed, beneficiary, value)} :
            \A m \in {Min(reserved_balance(S, slashed), value)} :
                IF free_balance(S, beneficiary) + reserved_balance(S, beneficiary) = 0
                THEN r.res = AccountMustPreexist /\ Untouched(r)
                ELSE /\ r.res = Ok
                     /\ r.value = value - m
                     /\ reserved_balance(r.st, slashed) = reserved_balance(S, slashed) - m
                     /\ free_balance(r.st, beneficiary) = free_balance(S, beneficiary) + m

\* C23: withdraw fails with InsufficientFunds when free < value; else with
\* AccountWouldDie when the liveness is KeepAlive and free - value is below
\* the existential deposit; else with a liquidity restriction when the
\* guard rejects free - value; a failed withdraw writes nothing. Otherwise
\* it sets the free balance to free - value, zeroed if that is below the
\* existential deposit, leaves the reserved balance, and returns a
\* negative token of magnitude exactly value.
C23_Withdraw ==
    \A who \in Accounts, value \in Balance, reason \in WithdrawReason,
       liveness \in {KeepAlive, AllowDeath} :
        \A r \in {withdraw(S, who, value, reason, liveness)} :
            \A new_balance \in {free_balance(S, who) - value} :
                IF new_balance < 0
                THEN r.res = InsufficientFunds /\ Untouched(r)
                ELSE IF liveness = KeepAlive /\ new_balance < ExistentialDeposit
                THEN r.res = AccountWouldDie /\ Untouched(r)
                ELSE IF ensure_can_withdraw(S, who, value, reason, new_balance).res # Ok
                THEN r.res \in LiquidityRestricted /\ Untouched(r)
                ELSE /\ r.res = Ok
                     /\ r.imbalance = NegativeImbalance(value)
                     /\ free_balance(r.st, who) =
                            IF new_balance < ExistentialDeposit THEN 0 ELSE new_balance
                     /\ reserved_balance(r.st, who) = reserved_balance(S, who)
                     /\ total_issuance(After(r)) = Max(TotalIssuance - value, 0)
                                 - (IF new_balance < ExistentialDeposit THEN new_balance ELSE 0)

\* An account under a lock for transfers: one withdrawal asks for more than
\* the free balance, one would kill the account under KeepAlive, one is
\* refused by the lock, one is met and leaves the account alive, and one
\* for a reason the lock does not name leaves dust, which is zeroed.
C23_Witness ==
    \E who \in Accounts :
        /\ locks(S, who) # <<>>
        /\ free_balance(S, who) = MaxBalance
        /\ withdraw(S, who, MaxBalance, "Transfer", KeepAlive).res = AccountWouldDie
        /\ withdraw(S, who, MaxBalance - 1, "Transfer", AllowDeath).res = LockRestricted
        /\ withdraw(S, who, 1, "Transfer", KeepAlive).res = Ok
        /\ free_balance(withdraw(S, who, 1, "Transfer", KeepAlive).st, who) = MaxBalance - 1
        /\ withdraw(S, who, MaxBalance - 1, "TransactionPayment", AllowDeath).res = Ok
        /\ withdraw(S, who, MaxBalance - 1, "TransactionPayment", AllowDeath).imbalance
               = NegativeImbalance(MaxBalance - 1)
        /\ free_balance(withdraw(S, who, MaxBalance - 1, "TransactionPayment", AllowDeath).st,
                        who) = 0
        /\ \E other \in Accounts :
               withdraw(S, other, MaxBalance, "Transfer", AllowDeath).res = InsufficientFunds

\* The calls of one hook a call made.
HooksOf(st, handler) == SelectSeq(st.hooks, LAMBDA h : h[1] = handler)

\* The storage a call left, as the next call finds it.
Quiet(st) == [st EXCEPT !.events = <<>>, !.hooks = <<>>]

\* The two storages hold the same balances, locks, nonces and issuance.
SameLedger(s1, s2) ==
    /\ s1.FreeBalance = s2.FreeBalance
    /\ s1.ReservedBalance = s2.ReservedBalance
    /\ s1.Locks = s2.Locks
    /\ s1.AccountNonce = s2.AccountNonce
    /\ s1.TotalIssuance = s2.TotalIssuance

\* C24: set_balance is idempotent. For every account and every (f, r),
\* below the existential deposit or not, a second set_balance(who, f, r)
\* right after the first changes no balance, lock, nonce or total
\* issuance, and creates no imbalance: it finds the balances equal to f
\* and r, so it adjusts no issuance, and it hands no dust to DustRemoval.
C24_SetBalanceIdempotent ==
    \A who \in Accounts, f \in Balance, r \in Balance :
        \A first \in {Quiet(After(set_balance(S, who, f, r)))} :
            \A second \in {set_balance(first, who, f, r)} :
                /\ SameLedger(After(second), first)
                /\ free_balance(first, who) = f
                /\ reserved_balance(first, who) = r
                /\ HooksOf(second.st, "DustRemoval") = <<>>

\* C25: make_free_balance_be with a balance below the existential deposit
\* on an account whose free balance is zero is a no-op. No balance, lock,
\* nonce or issuance changes, no hook is called, no event is deposited, and
\* the returned imbalance is positive with magnitude zero.
C25_DustOnZeroNoOp ==
    \A who \in Accounts, balance \in Balance :
        (balance < ExistentialDeposit /\ free_balance(S, who) = 0) =>
            \A r \in {make_free_balance_be(S, who, balance)} :
                /\ r.st = S
                /\ r.imbalance = PositiveImbalance(0)
                /\ SameLedger(After(r), S)

\* An account with a lock, a nonce and a reserved balance whose free
\* balance is zero is set to a free balance of dust: nothing changes.
C25_Witness ==
    \E who \in Accounts, balance \in Balance :
        /\ 0 < balance /\ balance < ExistentialDeposit
        /\ free_balance(S, who) = 0
        /\ reserved_balance(S, who) > 0
        /\ locks(S, who) # <<>>
        /\ who \in AccountNonce
        /\ make_free_balance_be(S, who, balance).st = S
        /\ make_free_balance_be(S, who, balance).imbalance = PositiveImbalance(0)

\* The free balance make_free_balance_be leaves.
Stored(balance) == IF balance < ExistentialDeposit THEN 0 ELSE balance

\* C26 as stated: the first make_free_balance_be returns
\* Positive(balance - original) when balance >= original and
\* Negative(original - balance) otherwise; a second call with the same
\* balance changes no state and returns a token of magnitude zero.
C26_SignedDifference ==
    \A who \in Accounts, balance \in Balance :
        \A original \in {free_balance(S, who)} :
            \A first \in {make_free_balance_be(S, who, balance)} :
                \A second \in {make_free_balance_be(Quiet(After(first)), who, balance)} :
                    /\ first.imbalance =
                           IF balance >= original
                           THEN PositiveImbalance(balance - original)
                           ELSE NegativeImbalance(original - balance)
                    /\ second.st = Quiet(After(first))
                    /\ second.imbalance.amount = 0

\* C26: make_free_balance_be is an idempotent absolute set. A dust balance
\* on a zero free balance is bypassed and returns Positive(0); otherwise
\* the first call returns Positive(balance - original) when balance >=
\* original and Negative(original - balance) when not, and stores balance,
\* or zero when balance is below the existential deposit. A second call
\* with the same balance changes no state and returns Positive(0).
C26_AbsoluteSet ==
    \A who \in Accounts, balance \in Balance :
        \A original \in {free_balance(S, who)} :
            \A first \in {make_free_balance_be(S, who, balance)} :
                \A second \in {make_free_balance_be(Quiet(After(first)), who, balance)} :
                    /\ first.res = Ok
                    /\ first.imbalance =
                           IF balance < ExistentialDeposit /\ original = 0
                           THEN PositiveImbalance(0)
                           ELSE IF balance >= original
                           THEN PositiveImbalance(balance - original)
                           ELSE NegativeImbalance(original - balance)
                    /\ free_balance(first.st, who) = Stored(balance)
                    /\ second.st = Quiet(After(first))
                    /\ second.imbalance = PositiveImbalance(0)

\* An account with a free balance is set higher, lower and to dust: the
\* imbalance is positive, negative and negative, and the dust is zeroed;
\* an account without one is set to dust, which is bypassed.
C26_Witness ==
    \E who \in Accounts, other \in Accounts :
        /\ free_balance(S, who) = ExistentialDeposit + 1
        /\ make_free_balance_be(S, who, MaxBalance).imbalance
               = PositiveImbalance(MaxBalance - ExistentialDeposit - 1)
        /\ make_free_balance_be(S, who, ExistentialDeposit).imbalance = NegativeImbalance(1)
        /\ free_balance(make_free_balance_be(S, who, ExistentialDeposit).st, who)
               = ExistentialDeposit
        /\ make_free_balance_be(S, who, 1).imbalance = NegativeImbalance(ExistentialDeposit)
        /\ free_balance(make_free_balance_be(S, who, 1).st, who) = 0
        /\ free_balance(S, other) = 0
        /\ make_free_balance_be(S, other, 1).imbalance = PositiveImbalance(0)
        /\ make_free_balance_be(S, other, ExistentialDeposit).imbalance
               = PositiveImbalance(ExistentialDeposit)

\* The account is Active in st: one of its balances is at least the
\* existential deposit.
Active(st, who) ==
    \/ free_balance(st, who) >= ExistentialDeposit
    \/ reserved_balance(st, who) >= ExistentialDeposit

\* The call r, if it made who Active, called on_new_account for who and
\* deposited NewAccount for who, each exactly once.
Notified(who, r) ==
    (r.res = Ok /\ Active(r.st, who)) =>
        /\ Len(SelectSeq(r.st.hooks, LAMBDA h : h = <<"on_new_account", who>>)) = 1
        /\ Len(SelectSeq(EventsOf(r.st, "NewAccount"), LAMBDA e : e[2] = who)) = 1

\* C27: account creation is always notified. Every operation that takes an
\* account whose free and reserved balances are both zero to a balance of
\* at least the existential deposit - a transfer to it, deposit_creating,
\* make_free_balance_be or set_balance - calls on_new_account and deposits
\* NewAccount for that account exactly once.
C27_CreationNotified ==
    \A who \in Accounts :
        (free_balance(S, who) = 0 /\ reserved_balance(S, who) = 0) =>
            /\ \A transactor \in Accounts, value \in Balance :
                   Notified(who, transfer(S, transactor, who, value))
            /\ \A value \in Balance :
                   /\ Notified(who, deposit_creating(S, who, value))
                   /\ Notified(who, make_free_balance_be(S, who, value))
            /\ \A new_free \in Balance, new_reserved \in Balance :
                   Notified(who, set_balance(S, who, new_free, new_reserved))

\* The call r deposited ReapedAccount for who.
Reaped(who, r) ==
    SelectSeq(EventsOf(r.st, "ReapedAccount"), LAMBDA e : e[2] = who) # <<>>

\* The call r, if it reaped who, left who without locks and without nonce.
ReapedClean(who, r) ==
    Reaped(who, r) => locks(r.st, who) = <<>> /\ who \notin r.st.AccountNonce

\* C28: reaping clears locks and nonce. Whenever an operation fully reaps
\* an account - a write below the existential deposit on one side while
\* the other side is zero, which deposits ReapedAccount - the account has
\* no lock and no nonce in the resulting state, whether the free or the
\* reserved side triggered the reap.
C28_ReapClears ==
    \A who \in Accounts, value \in Balance :
        /\ ReapedClean(who, slash(S, who, value))
        /\ ReapedClean(who, slash_reserved(S, who, value))
        /\ ReapedClean(who, reserve(S, who, value))
        /\ ReapedClean(who, unreserve(S, who, value))
        /\ ReapedClean(who, withdraw(S, who, value, "Transfer", AllowDeath))
        /\ \A beneficiary \in Accounts :
               ReapedClean(who, repatriate_reserved(S, who, beneficiary, value))

\* C29: split(amount) of a token of magnitude m returns two tokens of the
\* token's sign with magnitudes min(amount, m) and m - min(amount, m).
\* They sum to m, neither exceeds m, and the split, which cannot fail,
\* leaves the storage alone, for every amount.
C29_Split ==
    \A self \in BagToSet(tokens), amount \in Balance :
        \A r \in {split(S, self, amount)} :
            /\ Len(r.out) = 2
            /\ r.out[1] = [sign |-> self.sign, amount |-> Min(amount, self.amount)]
            /\ r.out[2] = [sign |-> self.sign,
                           amount |-> self.amount - Min(amount, self.amount)]
            /\ r.out[1].amount + r.out[2].amount = self.amount
            /\ r.out[1].amount \in 0..self.amount
            /\ r.out[2].amount \in 0..self.amount
            /\ r.st = S

\* A token of a magnitude inside the balance range is held: a split by
\* more than its magnitude gives the whole and a zero token, a split by
\* less gives the amount and the rest.
C29_Witness ==
    \E self \in BagToSet(tokens), less \in Balance, more \in Balance :
        /\ 0 < less /\ less < self.amount /\ self.amount < more
        /\ split(S, self, more).out =
               <<self, [sign |-> self.sign, amount |-> 0]>>
        /\ split(S, self, less).out =
               <<[sign |-> self.sign, amount |-> less],
                 [sign |-> self.sign, amount |-> self.amount - less]>>

\* The amount a token's drop would move the total issuance by, up or down.
Net(a, b) == IF a >= b THEN a - b ELSE b - a

\* The drop of the token is not clamped in st.
Exact(st, self) ==
    IF self.sign = "Positive" THEN total_issuance(st) + self.amount <= MaxBalance
    ELSE total_issuance(st) - self.amount >= 0

\* offset returns one token of magnitude |a - b| with the receiver's sign
\* when a >= b and the other sign when a < b, and consumes both inputs
\* without touching the storage.
OffsetResult(self, other, r) ==
    /\ r.out = <<[sign |-> IF self.amount >= other.amount THEN self.sign ELSE other.sign,
                  amount |-> Net(self.amount, other.amount)]>>
    /\ r.st = S

\* C30 as stated: offset returns one token of magnitude |a - b| with the
\* sign of the larger side, the receiver's on a tie, and the drop of the
\* result leaves the total issuance where the drops of the two inputs, one
\* after the other, would have left it.
C30_OffsetAsSeparateDrops ==
    \A self \in BagToSet(tokens), other \in BagToSet(tokens) :
        (Held(self, other) /\ self.sign # other.sign) =>
            \A r \in {offset(S, self, other)} :
                /\ OffsetResult(self, other, r)
                /\ total_issuance(drop(S, r.out[1]))
                       = total_issuance(drop(drop(S, self), other))
                /\ total_issuance(drop(S, r.out[1]))
                       = total_issuance(drop(drop(S, other), self))

\* C30: offset returns one token of magnitude |a - b| with the sign of the
\* larger side, the receiver's on a tie, and consumes both inputs. The drop
\* of the result moves the total issuance by |a - b| in the direction of
\* its sign, clamped to the balance range; that is where the drops of the
\* two inputs, one after the other, leave it whenever neither of those
\* drops is clamped.
C30_OffsetNet ==
    \A self \in BagToSet(tokens), other \in BagToSet(tokens) :
        (Held(self, other) /\ self.sign # other.sign) =>
            \A r \in {offset(S, self, other)} :
                /\ OffsetResult(self, other, r)
                /\ total_issuance(drop(S, r.out[1])) =
                       IF r.out[1].sign = "Positive"
                       THEN Min(TotalIssuance + Net(self.amount, other.amount), MaxBalance)
                       ELSE Max(TotalIssuance - Net(self.amount, other.amount), 0)
                /\ (Exact(S, self) /\ Exact(drop(S, self), other)) =>
                       total_issuance(drop(S, r.out[1]))
                           = total_issuance(drop(drop(S, self), other))
                /\ (Exact(S, other) /\ Exact(drop(S, other), self)) =>
                       total_issuance(drop(S, r.out[1]))
                           = total_issuance(drop(drop(S, other), self))

\* A positive token is held with a larger, an equal and a smaller negative
\* one in turn: the offsets leave a negative, a zero positive and a
\* positive token; one pair's separate drops are not clamped and agree
\* with the drop of the result.
C30_Witness ==
    \E self \in BagToSet(tokens), other \in BagToSet(tokens) :
        /\ Held(self, other)
        /\ self.sign = "Positive" /\ other.sign = "Negative"
        /\ 0 < other.amount /\ other.amount < self.amount
        /\ offset(S, self, other).out =
               <<PositiveImbalance(self.amount - other.amount)>>
        /\ offset(S, other, self).out =
               <<PositiveImbalance(self.amount - other.amount)>>
        /\ offset(S, self, NegativeImbalance(self.amount)).out = <<PositiveImbalance(0)>>
        /\ offset(S, NegativeImbalance(self.amount), self).out = <<NegativeImbalance(0)>>
        /\ Exact(S, self) /\ Exact(drop(S, self), other)
        /\ total_issuance(drop(S, offset(S, self, other).out[1]))
               = TotalIssuance + self.amount - other.amount

\* C31: token arithmetic saturates. merge and subsume yield one token of
\* magnitude min(a + b, MaxBalance); the drop of a positive token sets the
\* total issuance to min(issuance + m, MaxBalance), the drop of a negative
\* one to max(issuance - m, 0); the total issuance stays within the
\* balance range.
C31_Saturating ==
    /\ TotalIssuance \in Balance
    /\ \A self \in BagToSet(tokens) :
           /\ self.sign = "Positive" =>
                  total_issuance(drop(S, self)) = Min(TotalIssuance + self.amount, MaxBalance)
           /\ self.sign = "Negative" =>
                  total_issuance(drop(S, self)) = Max(TotalIssuance - self.amount, 0)
           /\ total_issuance(drop(S, self)) \in Balance
    /\ \A self \in BagToSet(tokens), other \in BagToSet(tokens) :
           (Held(self, other) /\ self.sign = other.sign) =>
               \A sum \in {[sign |-> self.sign,
                            amount |-> Min(self.amount + other.amount, MaxBalance)]} :
                   /\ merge(S, self, other).out = <<sum>>
                   /\ subsume(S, self, other).out = <<sum>>
                   /\ sum.amount \in Balance

\* Two positive tokens whose sum exceeds the balance range are held with a
\* negative token larger than the total issuance: the merge is clamped at
\* the top, the drop of the positive token too, and the drop of the
\* negative one at zero.
C31_Witness ==
    \E self \in BagToSet(tokens), other \in BagToSet(tokens), neg \in BagToSet(tokens) :
        /\ Held(self, other)
        /\ self.sign = "Positive" /\ other.sign = "Positive" /\ neg.sign = "Negative"
        /\ self.amount + other.amount > MaxBalance
        /\ merge(S, self, other).out = <<PositiveImbalance(MaxBalance)>>
        /\ TotalIssuance + self.amount > MaxBalance
        /\ total_issuance(drop(S, self)) = MaxBalance
        /\ neg.amount > TotalIssuance
        /\ total_issuance(drop(S, neg)) = 0

\* C32: transfer never wraps a balance. If value + fee exceeds the balance
\* range it fails with Overflow, and if the destination's free balance +
\* value exceeds the range it fails, in both cases before any state
\* change; after a successful transfer between two accounts the
\* destination holds exactly its old balance plus value and the sender
\* exactly its old balance less value and fee, or zero when that is below
\* the existential deposit, and every balance is within the range.
C32_NoWrap ==
    \A transactor \in Accounts, dest \in Accounts, value \in Balance :
        \A r \in {transfer(S, transactor, dest, value)} :
            /\ value + FeeCharged(dest) > MaxBalance => r.res = Overflow /\ Untouched(r)
            /\ free_balance(S, dest) + value > MaxBalance =>
                   r.res \in Errors /\ Untouched(r)
            /\ (r.res = Ok /\ transactor # dest) =>
                   /\ free_balance(r.st, dest) = free_balance(S, dest) + value
                   /\ free_balance(r.st, transactor) =
                          IF Remainder(transactor, dest, value) < ExistentialDeposit
                          THEN 0 ELSE Remainder(transactor, dest, value)
            /\ r.res = Ok =>
                   /\ value + FeeCharged(dest) <= MaxBalance
                   /\ free_balance(S, dest) + value <= MaxBalance
                   /\ \A a \in Accounts : free_balance(r.st, a) \in Balance

\* A sender at the top of the balance range: a transfer of the whole range
\* overflows on the fee; a transfer to a destination that is at the top
\* too overflows on the destination and leaves the storage alone, and a
\* transfer of nothing is met and charges the fee.
C32_Witness ==
    \E transactor \in Accounts, dest \in Accounts, value \in Balance :
        /\ transactor # dest
        /\ free_balance(S, transactor) = MaxBalance
        /\ free_balance(S, dest) = MaxBalance
        /\ transfer(S, transactor, dest, MaxBalance).res = Overflow
        /\ value > 0 /\ value + TransferFee <= MaxBalance
        /\ ensure_can_withdraw(S, transactor, value, "Transfer",
                               MaxBalance - value - TransferFee).res = Ok
        /\ transfer(S, transactor, dest, value).res = Overflow
        /\ transfer(S, transactor, dest, value).st = S
        /\ transfer(S, transactor, dest, 0).res = Ok
        /\ free_balance(transfer(S, transactor, dest, 0).st, transactor)
               = MaxBalance - TransferFee

\* The moments a schedule is asked about: the oracle's range and one more.
Asked == 0..(MaxMoment + 1)

\* C33: locked_at(n) equals offset - min(offset, per_block * n). It is
\* never negative, never exceeds offset, does not increase with n, is zero
\* once per_block * n >= offset, and is zero when per_block * n exceeds the
\* balance range.
C33_LockedAt ==
    \A who \in Accounts, n \in Asked :
        Vesting[who].some =>
            \A v \in {Vesting[who]} :
                /\ locked_at(v, n) = v.offset - Min(v.offset, v.per_block * n)
                /\ locked_at(v, n) >= 0
                /\ locked_at(v, n) <= v.offset
                /\ locked_at(v, n + 1) <= locked_at(v, n)
                /\ v.per_block * n >= v.offset => locked_at(v, n) = 0
                /\ v.per_block * n > MaxBalance => locked_at(v, n) = 0

\* A schedule that has unlocked a part at the current moment, unlocks the
\* rest within the oracle's range, and whose product exceeds the balance
\* range one moment later, while the guard reads it.
C33_Witness ==
    \E who \in Accounts :
        /\ Vesting[who].some
        /\ now > 0
        /\ locked_at(Vesting[who], now) > 0
        /\ locked_at(Vesting[who], now) < Vesting[who].offset
        /\ locked_at(Vesting[who], MaxMoment) = 0
        /\ Vesting[who].per_block * (MaxMoment + 1) > MaxBalance
        /\ locked_at(Vesting[who], MaxMoment + 1) = 0
        /\ vesting_balance(S, who) = locked_at(Vesting[who], now)
        /\ ensure_can_withdraw(S, who, 0, "Transfer", 0).res = VestingRestricted

\* The storage in which account b has the free balance of account a.
Twin(a, b) ==
    [S EXCEPT !.FreeBalance = IF exists(S, a) THEN insert(@, b, free_balance(S, a))
                              ELSE remove(@, b)]

\* A transfer of value from a to itself has the funds and the guard
\* accepts it.
Funded(a, value) ==
    /\ free_balance(S, a) >= value + FeeCharged(a)
    /\ ensure_can_withdraw(S, a, value, "Transfer",
                           free_balance(S, a) - value - FeeCharged(a)).res = Ok

\* A transfer of value from a to itself passes every check of transfer.
Valid(a, value) ==
    /\ value + FeeCharged(a) <= MaxBalance
    /\ Funded(a, value)
    /\ ~(free_balance(S, a) = 0 /\ value < ExistentialDeposit)
    /\ free_balance(S, a) + value <= MaxBalance

\* A transfer from a to itself returns what the transfer to another
\* account with the same free balance returns.
AsToAnother(a, value) ==
    \A b \in Accounts \ {a} :
        transfer(S, a, a, value).res = transfer(Twin(a, b), a, b, value).res

\* C34 as stated: a transfer from an account to itself for which the
\* account has value + fee and the guard accepts returns success and
\* changes nothing; any other one returns the error a transfer to another
\* account would.
C34_SelfTransferFunded ==
    \A a \in Accounts, value \in Balance :
        \A r \in {transfer(S, a, a, value)} :
            IF Funded(a, value)
            THEN r.res = Ok /\ Untouched(r)
            ELSE r.res \in Errors /\ AsToAnother(a, value)

\* C34: a transfer from an account to itself that passes every check of
\* transfer - value + fee within the balance range, free >= value + fee,
\* value >= ExistentialDeposit if the free balance is zero, the guard's
\* acceptance, free + value within the balance range - returns success
\* and changes nothing: no balance, issuance, lock or nonce, no fee, no
\* event. One that fails a check returns the error, changes nothing
\* either, and the error is the one a transfer to another account with the
\* same free balance returns.
C34_SelfTransfer ==
    \A a \in Accounts, value \in Balance :
        \A r \in {transfer(S, a, a, value)} :
            /\ Untouched(r)
            /\ SameLedger(After(r), S)
            /\ IF Valid(a, value) THEN r.res = Ok ELSE r.res \in Errors
            /\ AsToAnother(a, value)

\* An account under a lock: one transfer to itself passes and changes
\* nothing where the same transfer to another account moves the value and
\* charges the fee; one is refused by the lock; one overflows the balance
\* range; and on the other account, at the top of the balance range
\* without a lock, one that has the funds overflows on the destination.
C34_Witness ==
    \E a \in Accounts, b \in Accounts, v1 \in Balance, v2 \in Balance :
        /\ a # b
        /\ locks(S, a) # <<>>
        /\ free_balance(S, a) = MaxBalance
        /\ transfer(S, a, a, 0).res = Ok
        /\ transfer(S, a, a, 0).st = S
        /\ transfer(S, a, b, 0).res = Ok
        /\ free_balance(transfer(S, a, b, 0).st, a) = MaxBalance - FeeCharged(b)
        /\ transfer(S, a, a, v1).res = LockRestricted
        /\ transfer(S, a, a, MaxBalance).res = Overflow
        /\ free_balance(S, b) = MaxBalance
        /\ v2 + FeeCharged(b) <= MaxBalance
        /\ Funded(b, v2) /\ transfer(S, b, b, v2).res = Overflow

\* A third account, which no caller names.
Bystander == "C"

\* The storage with the bystander in it, holding the free balance f and the
\* reserved balance r, a lock and a nonce.
WithBystander(f, r) ==
    [S EXCEPT !.FreeBalance = IF f = 0 THEN @ ELSE insert(@, Bystander, f),
              !.ReservedBalance = insert(@, Bystander, r),
              !.Locks = insert(@, Bystander,
                               <<BalanceLock(1, MaxBalance, MaxMoment + 1, {"Transfer"})>>),
              !.Vesting = insert(@, Bystander, NoVesting),
              !.AccountNonce = @ \cup {Bystander}]

\* The call that found st left who's free balance, locks and nonce as they
\* were.
Kept(st, r, who) ==
    /\ exists(r.st, who) = exists(st, who)
    /\ free_balance(r.st, who) = free_balance(st, who)
    /\ locks(r.st, who) = locks(st, who)
    /\ (who \in r.st.AccountNonce) = (who \in st.AccountNonce)

\* C39: a transfer changes the reserved balance of no account, and the free
\* balance, the locks and the nonce of no account other than the sender and
\* the destination, whether it succeeds or fails.
C39_TransferFrame ==
    \A transactor \in Accounts, dest \in Accounts, value \in Balance :
        \A f \in {0, ExistentialDeposit}, rb \in {0, ExistentialDeposit} :
            \A st \in {WithBystander(f, rb)} :
                \A r \in {transfer(st, transactor, dest, value)} :
                    /\ r.st.ReservedBalance = st.ReservedBalance
                    /\ Kept(st, r, Bystander)
                    /\ \A who \in Accounts \ {transactor, dest} : Kept(st, r, who)

\* A sender with a reserved balance, next to a bystander with balances and
\* a lock, makes a transfer that moves value to the destination and one
\* that leaves its own free balance as dust, which reaps its free side and
\* removes its locks: the bystander keeps its lock and the sender its
\* reserved balance.
C39_Witness ==
    \E transactor \in Accounts, dest \in Accounts, v1 \in Balance, v2 \in Balance :
        \E st \in {WithBystander(ExistentialDeposit, ExistentialDeposit)} :
            /\ transactor # dest
            /\ reserved_balance(st, transactor) > 0
            /\ transfer(st, transactor, dest, v1).res = Ok
            /\ free_balance(transfer(st, transactor, dest, v1).st, dest)
                   = free_balance(st, dest) + v1
            /\ v1 > 0
            /\ transfer(st, transactor, dest, v2).res = Ok
            /\ free_balance(st, transactor) - v2 - FeeCharged(dest) > 0
            /\ free_balance(transfer(st, transactor, dest, v2).st, transactor) = 0
            /\ locks(transfer(st, transactor, dest, v2).st, Bystander) # <<>>
            /\ reserved_balance(transfer(st, transactor, dest, v2).st, transactor)
                   = reserved_balance(st, transactor)

\* The call r took who from a free balance to the half-dead state: no free
\* balance, and a reserved balance of at least the existential deposit.
EntersHalfDead(who, r) ==
    /\ r.res = Ok
    /\ free_balance(S, who) > 0
    /\ free_balance(r.st, who) = 0
    /\ reserved_balance(r.st, who) >= ExistentialDeposit

\* The call r zeroed who's free side without reaping the account.
ZeroedNotReaped(who, r) ==
    /\ HooksOf(r.st, "on_free_balance_zero") = << <<"on_free_balance_zero", who>> >>
    /\ locks(r.st, who) = <<>>
    /\ ~exists(r.st, who)
    /\ (who \in r.st.AccountNonce) = (who \in AccountNonce)
    /\ ~Reaped(who, r)

\* C35: the half-dead state is not a reap. A reserve, withdrawal, slash or
\* transfer that takes an account's free balance to zero while its
\* reserved balance is at least the existential deposit - a reserve of the
\* whole free balance does - calls on_free_balance_zero and removes the
\* account's locks, keeps its nonce and deposits no ReapedAccount.
C35_HalfDead ==
    \A who \in Accounts, value \in Balance :
        /\ \A r \in {reserve(S, who, value)} :
               /\ EntersHalfDead(who, r) => ZeroedNotReaped(who, r)
               /\ (r.res = Ok /\ value = free_balance(S, who) /\ value >= ExistentialDeposit)
                      => EntersHalfDead(who, r)
        /\ \A r \in {slash(S, who, value)} :
               EntersHalfDead(who, r) => ZeroedNotReaped(who, r)
        /\ \A r \in {withdraw(S, who, value, "Transfer", AllowDeath)} :
               EntersHalfDead(who, r) => ZeroedNotReaped(who, r)
        /\ \A dest \in Accounts \ {who} :
               \A r \in {transfer(S, who, dest, value)} :
                   EntersHalfDead(who, r) => ZeroedNotReaped(who, r)

\* An account with a lock, a nonce and no reserved balance reserves its
\* whole free balance: it is left with the reserved balance alone, without
\* its locks, with its nonce, and no ReapedAccount is deposited.
C35_Witness ==
    \E who \in Accounts :
        /\ free_balance(S, who) >= ExistentialDeposit
        /\ reserved_balance(S, who) = 0
        /\ locks(S, who) # <<>>
        /\ who \in AccountNonce
        /\ \E r \in {reserve(S, who, free_balance(S, who))} :
               /\ r.res = Ok
               /\ free_balance(r.st, who) = 0
               /\ reserved_balance(r.st, who) = free_balance(S, who)
               /\ locks(r.st, who) = <<>>
               /\ who \in r.st.AccountNonce
               /\ EventsOf(r.st, "ReapedAccount") = <<>>
               /\ r.st.hooks = << <<"on_free_balance_zero", who>> >>

(***************************************************************************)
(* C36: AbortGuard restores the thread-local abort flag. Creating a guard  *)
(* sets the flag of the calling thread (false for force_unwind, true for   *)
(* force_abort) and records the value it had; dropping the guard resets    *)
(* the flag to the value it had when that guard was created; a thread      *)
(* whose guards were all dropped last-made first and that holds none has   *)
(* its flag back at the initial value true; and the panic hook exits the   *)
(* process only on a thread whose flag is true.                            *)
(***************************************************************************)
C36_AbortGuard ==
    /\ \A t \in Threads :
        /\ \A made \in {force_unwind(P, t)} :
            /\ made.ABORT[t] = FALSE
            /\ made.ABORT = [P.ABORT EXCEPT ![t] = FALSE]
            /\ drop_guard(made, t, Len(made.guards[t])) = P
        /\ \A made \in {force_abort(P, t)} :
            /\ made.ABORT[t] = TRUE
            /\ made.ABORT = [P.ABORT EXCEPT ![t] = TRUE]
            /\ drop_guard(made, t, Len(made.guards[t])) = P
        /\ \A i \in 1..Len(guards[t]) :
            drop_guard(P, t, i).ABORT = [ABORT EXCEPT ![t] = guards[t][i]]
        /\ (in_order[t] /\ guards[t] = <<>>) => ABORT[t] = TRUE
        /\ (in_order[t] /\ guards[t] # <<>>) =>
                unwind(P, t, Len(guards[t])).ABORT[t] = TRUE
        /\ panic_hook(P, t) = ABORT[t]
    /\ exited # Running => ABORT[exited] = TRUE

\* A thread holds a force_abort guard made inside a force_unwind guard made
\* inside a force_abort guard, all of its drops so far in order, while the
\* panic of the other thread has exited the process.
C36_Witness ==
    \E t \in Threads :
        /\ guards[t] = <<TRUE, TRUE, FALSE>>
        /\ ABORT[t] = TRUE
        /\ in_order[t]
        /\ exited \in Threads \ {t}
        /\ unwind(P, t, 1).ABORT[t] = FALSE

(***************************************************************************)
(* C37: dust accounting. A write that lowers the free or the reserved side *)
(* of an account to b with 0 < b < ExistentialDeposit stores that side as  *)
(* zero (the free entry is removed), hands exactly one Negative token of   *)
(* magnitude b to the dust-removal handler, and the total issuance drops   *)
(* by exactly b; a write of exactly zero hands it no token and leaves the  *)
(* issuance alone.                                                         *)
(***************************************************************************)
DustAmounts == 1..(ExistentialDeposit - 1)

\* The accounts whose free side is above b: a write of b lowers it, as
\* withdraw, slash, reserve and transfer make it.
FreeAbove(st, b) == {a \in Accounts : free_balance(st, a) > b}

\* The accounts whose reserved side is above b: a write of b lowers it, as
\* unreserve, slash_reserved and repatriate_reserved make it.
ReservedAbove(st, b) == {a \in Accounts : reserved_balance(st, a) > b}

\* What the dust-removal handler was handed for the dust b (nothing for
\* none), and the total issuance after it.
Routed(st, r, b) ==
    /\ HooksOf(r, "DustRemoval") = IF b = 0 THEN <<>> ELSE << <<"DustRemoval", b>> >>
    /\ r.TotalIssuance = st.TotalIssuance - b

C37_DustExact ==
    \A b \in DustAmounts \cup {0} :
        /\ \A who \in FreeAbove(S, b) :
            \A r \in {set_free_balance(S, who, b)} :
                /\ who \notin DOMAIN r.FreeBalance
                /\ free_balance(r, who) = 0
                /\ Routed(S, r, b)
        /\ \A who \in ReservedAbove(S, b) :
            \A r \in {set_reserved_balance(S, who, b)} :
                /\ reserved_balance(r, who) = 0
                /\ Routed(S, r, b)

\* How many times the call r deposited ReapedAccount for who.
Reaps(who, r) ==
    Len(SelectSeq(EventsOf(r.st, "ReapedAccount"), LAMBDA e : e[2] = who))

\* The call r on a ledger st deposited ReapedAccount for who at most once,
\* and not at all if who held nothing in st.
ReapedOnceIfHeld(st, who, r) ==
    /\ Reaps(who, r) <= 1
    /\ (free_balance(st, who) = 0 /\ reserved_balance(st, who) = 0) => Reaps(who, r) = 0

\* C38: ReapedAccount is deposited for an account only by an operation
\* before which the account had a non-zero free or reserved balance, and
\* at most once per account by one operation: slash, set_balance,
\* unreserve, slash_reserved, reserve, withdraw, transfer and
\* repatriate_reserved on an account that holds nothing deposit none.
C38_ReapedOnlyIfHeld ==
    \A who \in Accounts, value \in Balance :
        /\ ReapedOnceIfHeld(S, who, slash(S, who, value))
        /\ ReapedOnceIfHeld(S, who, slash_reserved(S, who, value))
        /\ ReapedOnceIfHeld(S, who, reserve(S, who, value))
        /\ ReapedOnceIfHeld(S, who, unreserve(S, who, value))
        /\ ReapedOnceIfHeld(S, who, withdraw(S, who, value, "Transfer", AllowDeath))
        /\ \A new_reserved \in {0, value} :
               ReapedOnceIfHeld(S, who, set_balance(S, who, value, new_reserved))
        /\ \A other \in Accounts :
               /\ ReapedOnceIfHeld(S, who, transfer(S, who, other, value))
               /\ ReapedOnceIfHeld(S, who, transfer(S, other, who, value))
               /\ ReapedOnceIfHeld(S, who, repatriate_reserved(S, who, other, value))

\* The fee of a transaction of the encoded length len.
FeeOf(len) == TransactionBaseFee + TransactionByteFee * len

\* A lock of who that is unexpired, names TransactionPayment among its
\* reasons and asks for more than new_balance.
PaymentLocked(st, who, new_balance) ==
    \E i \in 1..Len(locks(st, who)) :
        /\ st.now < locks(st, who)[i].until
        /\ "TransactionPayment" \in locks(st, who)[i].reasons
        /\ new_balance < locks(st, who)[i].amount

\* What make_payment answers on the ledger st, told from the funds, the
\* keep-alive rule and the locks alone.
PaymentAnswer(st, who, fee) ==
    IF free_balance(st, who) < fee THEN InsufficientFunds
    ELSE IF free_balance(st, who) - fee < ExistentialDeposit THEN AccountWouldDie
    ELSE IF PaymentLocked(st, who, free_balance(st, who) - fee) THEN LockRestricted
    ELSE Ok

\* C40: make_payment(who, len) withdraws transactionBaseFee +
\* transactionByteFee * len for the reason TransactionPayment with
\* KeepAlive. It fails only for insufficient funds, the keep-alive rule or
\* an unexpired lock whose reasons include TransactionPayment, never for a
\* vesting schedule; on success the payer's free balance is lower by the
\* fee and still at least the existential deposit, the payer is not reaped
\* and keeps its reserved balance, locks and nonce, and the fee is handed
\* to the transaction-payment handler; on failure nothing changes.
C40_MakePayment ==
    \A who \in Accounts, len \in FittingLens :
        \A r \in {make_payment(S, who, len)} :
            /\ r.res = PaymentAnswer(S, who, FeeOf(len))
            /\ r.res # Ok => Untouched(r)
            /\ r.res = Ok =>
                /\ free_balance(r.st, who) = free_balance(S, who) - FeeOf(len)
                /\ free_balance(r.st, who) >= ExistentialDeposit
                /\ ~Reaped(who, r)
                /\ EventsOf(r.st, "ReapedAccount") = <<>>
                /\ HooksOf(r.st, "TransactionPayment") = << <<"TransactionPayment", FeeOf(len)>> >>
                /\ HooksOf(r.st, "DustRemoval") = <<>>
                /\ r.st.ReservedBalance = S.ReservedBalance
                /\ r.st.Locks = S.Locks
                /\ r.st.AccountNonce = S.AccountNonce
                /\ \A other \in Accounts \ {who} :
                       free_balance(r.st, other) = free_balance(S, other)

\* A payer whose vesting schedule still holds back more than a payment
\* leaves pays all the same; the same payer, under an unexpired lock that
\* names TransactionPayment, is refused a larger payment by the lock, and
\* a still larger one by the keep-alive rule.
C40_Witness ==
    \E who \in Accounts :
        /\ \E len \in FittingLens :
            /\ make_payment(S, who, len).res = Ok
            /\ vesting_balance(S, who) > free_balance(S, who) - FeeOf(len)
            /\ withdraw(S, who, FeeOf(len), "Transfer", KeepAlive).res = VestingRestricted
        /\ \E len \in FittingLens : make_payment(S, who, len).res = LockRestricted
        /\ \E len \in FittingLens : make_payment(S, who, len).res = AccountWouldDie

====
